---- MODULE Spec2Model ----
(***************************************************************************)
(* A model of klee-float's Z3Builder (lib/Solver/Z3Builder.cpp): the       *)
(* translator from KLEE's expression IR to Z3 ASTs, with its construct     *)
(* cache, its array cache, its destructor and its Z3 error handler.        *)
(*                                                                         *)
(* Z3 terms are values <<op, sort, params, args>>: Z3 hash-conses its      *)
(* ASTs, so two handles denote the same term iff the values are equal.     *)
(* 64-bit machine words are four 16-bit limbs, least significant first.    *)
(* Strings that the code measures or cuts are sequences of characters.     *)
(***************************************************************************)
EXTENDS Integers, Sequences, FiniteSets, TLC

VARIABLES
  UseConstructHashZ3, \* the command-line option use-construct-hash-z3
  NDEBUG,             \* build: assert() compiled out
  argsRightToLeft,    \* build: order in which call arguments are evaluated
  constructed,        \* Z3Builder::constructed, the construct cache
  array_hash,         \* Z3ArrayExprHash::_array_hash
  update_node_hash,   \* Z3ArrayExprHash::_update_node_hash
  ctx,                \* the Z3 context: "live" or "deleted"
  pc,                 \* "run", inside the destructor, "done" or "aborted"
  last,               \* what the last call returned and did
  shadow,             \* the same calls on a Builder whose cache is never cleared
  returned,           \* every <<e, ast, width>> a construct call has returned so far
  ncalls              \* number of top-level calls made

vars == <<UseConstructHashZ3, NDEBUG, argsRightToLeft, constructed, array_hash,
          update_node_hash, ctx, pc, last, shadow, returned, ncalls>>

-----------------------------------------------------------------------------
(* Bounds of the model.                                                    *)

MaxCalls == 2
MaxArrays == 11
MaxLongNames == 2
MaxFpCalls == 1

-----------------------------------------------------------------------------
(* A local variable that is computed once: Op applied to the value x.     *)

With(x, Op(_)) == Op(x)

-----------------------------------------------------------------------------
(* Machine words.                                                          *)

U64(n) == <<n % 65536, (n \div 65536) % 65536, 0, 0>>

AllOnes64 == <<65535, 65535, 65535, 65535>>

\* how many of the low w bits of a word lie in limb i
Clamp16(r) == IF r < 0 THEN 0 ELSE IF r > 16 THEN 16 ELSE r
LimbBits(w, i) == Clamp16(w - 16 * (i - 1))

\* the value of a numeral of sort BV(w) made from the word v: v mod 2^w
Mask(v, w) == <<v[1] % (2 ^ LimbBits(w, 1)), v[2] % (2 ^ LimbBits(w, 2)),
                v[3] % (2 ^ LimbBits(w, 3)), v[4] % (2 ^ LimbBits(w, 4))>>

\* conversion of a word to uint32_t
Lo32(v) == <<v[1], v[2], 0, 0>>

-----------------------------------------------------------------------------
(* Z3: sorts and the sort rules of the term constructors the Builder uses. *)

BoolSort == <<"Bool">>
ErrSort == <<"Err">>
RmSort == <<"RM">>
Z3_mk_fpa_sort(ebits, sbits) == <<"FP", ebits, sbits>>
getBvSort(width) == IF width >= 1 THEN <<"BV", width>> ELSE ErrSort
getArraySort(domainSort, rangeSort) ==
  IF domainSort = ErrSort \/ rangeSort = ErrSort THEN ErrSort
  ELSE <<"Array", domainSort, rangeSort>>

IsBV(s) == s[1] = "BV"
IsFP(s) == s[1] = "FP"
IsArray(s) == s[1] = "Array"

ErrTerm == <<"error", <<>>, <<>>, <<>>, ErrSort>>

\* a Z3_mk_* call: the term op(params; args), its sort left to Z3_get_sort
Z3_mk(op, p, a) == <<op, <<>>, p, a>>

\* constructors whose result sort is an argument: constants, numerals, to_fp
Z3_mk_sorted(op, p, a, sort) == <<op, sort, p, a>>

\* the sort Z3 gives to op(params; args) for arguments of sorts a, ErrSort when
\* Z3 reports an error
Z3Sort(op, p, a) ==
  LET s(i) == a[i]
      AllBool == \A i \in 1..Len(a) : s(i) = BoolSort
      SameBV == IsBV(s(1)) /\ s(2) = s(1)
      SameFP == IsFP(s(1)) /\ s(2) = s(1)
  IN
  IF \E i \in 1..Len(a) : s(i) = ErrSort THEN ErrSort
  ELSE CASE op \in {"true", "false"} -> BoolSort
    [] op \in {"not", "and", "or", "iff"} -> IF AllBool THEN BoolSort ELSE ErrSort
    [] op = "=" -> IF s(1) = s(2) THEN BoolSort ELSE ErrSort
    [] op = "ite" -> IF s(1) = BoolSort /\ s(2) = s(3) THEN s(2) ELSE ErrSort
    [] op = "bvnot" -> IF IsBV(s(1)) THEN s(1) ELSE ErrSort
    [] op = "bvredor" -> IF IsBV(s(1)) THEN getBvSort(1) ELSE ErrSort
    [] op \in {"bvand", "bvor", "bvxor", "bvadd", "bvsub", "bvmul", "bvudiv",
               "bvsdiv", "bvurem", "bvsrem"} -> IF SameBV THEN s(1) ELSE ErrSort
    [] op \in {"bvult", "bvule", "bvslt", "bvsle"} -> IF SameBV THEN BoolSort ELSE ErrSort
    [] op = "concat" ->
         IF IsBV(s(1)) /\ IsBV(s(2)) THEN getBvSort(s(1)[2] + s(2)[2]) ELSE ErrSort
    [] op = "extract" ->   \* p = <<high, low>>
         IF IsBV(s(1)) /\ 0 <= p[2] /\ p[2] <= p[1] /\ p[1] < s(1)[2]
         THEN getBvSort(p[1] - p[2] + 1) ELSE ErrSort
    [] op = "sign_ext" ->  \* p = <<extra bits>>
         IF IsBV(s(1)) /\ p[1] >= 0 THEN getBvSort(s(1)[2] + p[1]) ELSE ErrSort
    [] op = "select" ->
         IF IsArray(s(1)) /\ s(2) = s(1)[2] THEN s(1)[3] ELSE ErrSort
    [] op = "store" ->
         IF IsArray(s(1)) /\ s(2) = s(1)[2] /\ s(3) = s(1)[3] THEN s(1) ELSE ErrSort
    [] op \in {"fp.isNaN", "fp.isInfinite", "fp.isZero", "fp.isSubnormal",
               "fp.isNegative"} -> IF IsFP(s(1)) THEN BoolSort ELSE ErrSort
    [] op = "fp.abs" -> IF IsFP(s(1)) THEN s(1) ELSE ErrSort
    [] op \in {"fp.sqrt", "fp.roundToIntegral"} ->
         IF s(1) = RmSort /\ IsFP(s(2)) THEN s(2) ELSE ErrSort
    [] op \in {"fp.add", "fp.sub", "fp.mul", "fp.div"} ->
         IF s(1) = RmSort /\ IsFP(s(2)) /\ s(3) = s(2) THEN s(2) ELSE ErrSort
    [] op \in {"fp.rem", "fp.min", "fp.max"} -> IF SameFP THEN s(1) ELSE ErrSort
    [] op \in {"fp.eq", "fp.lt", "fp.leq", "fp.gt", "fp.geq"} ->
         IF SameFP THEN BoolSort ELSE ErrSort
    [] op = "fp" ->
         IF IsBV(s(1)) /\ s(1)[2] = 1 /\ IsBV(s(2)) /\ IsBV(s(3))
         THEN Z3_mk_fpa_sort(s(2)[2], s(3)[2] + 1) ELSE ErrSort
    [] op = "fp.to_ieee_bv" ->
         IF IsFP(s(1)) THEN getBvSort(s(1)[2] + s(1)[3]) ELSE ErrSort
    [] op \in {"fp.to_ubv", "fp.to_sbv"} ->   \* p = <<size>>
         IF s(1) = RmSort /\ IsFP(s(2)) THEN getBvSort(p[1]) ELSE ErrSort
    [] OTHER -> ErrSort

\* whether Z3 accepts a constructor that is given its result sort
Z3SortGiven(op, sort, a) ==
  LET s(i) == a[i]
      ok == CASE op = "const" -> TRUE
              [] op = "bv" -> IsBV(sort)
              [] op \in {"fp.nan", "fp.zero", "fp.numeral"} -> IsFP(sort)
              [] op = "to_fp_bv" ->
                   IsFP(sort) /\ IsBV(s(1)) /\ s(1)[2] = sort[2] + sort[3]
              [] op = "to_fp_float" -> IsFP(sort) /\ s(1) = RmSort /\ IsFP(s(2))
              [] op \in {"to_fp_signed", "to_fp_unsigned"} ->
                   IsFP(sort) /\ s(1) = RmSort /\ IsBV(s(2))
              [] op = "rm" -> sort = RmSort
              [] OTHER -> FALSE
  IN IF sort = ErrSort \/ (\E i \in 1..Len(a) : s(i) = ErrSort) \/ ~ok
     THEN ErrSort ELSE sort

\* the sort of op(params; args) for arguments of sorts a, where a constructor
\* that is given its result sort has it in sort
Z3SortOf(op, sort, p, a) ==
  IF sort = <<>> THEN Z3Sort(op, p, a) ELSE Z3SortGiven(op, sort, a)

RECURSIVE Z3_get_sort(_)
\* the sort of a term (of at most three arguments); ErrSort if Z3 reported an
\* error for it or for a part of it.  A term that carries its sort is
\* <<op, sort, params, args, sort of the term>>.
Z3_get_sort(t) ==
  IF Len(t) = 5 THEN t[5]
  ELSE Z3SortOf(t[1], t[2], t[3],
                CASE Len(t[4]) = 0 -> <<>>
                  [] Len(t[4]) = 1 -> <<Z3_get_sort(t[4][1])>>
                  [] Len(t[4]) = 2 -> <<Z3_get_sort(t[4][1]), Z3_get_sort(t[4][2])>>
                  [] Len(t[4]) = 3 -> <<Z3_get_sort(t[4][1]), Z3_get_sort(t[4][2]),
                                        Z3_get_sort(t[4][3])>>)

RECURSIVE Z3Handle(_)
\* the term as a Z3ASTHandle holds it: the term and every part of it carry their
\* sorts, so that the sort of a term built from it is computed from them
Z3Handle(t) ==
  IF Len(t) = 5 THEN t
  ELSE With(CASE Len(t[4]) = 0 -> <<>>
              [] Len(t[4]) = 1 -> <<Z3Handle(t[4][1])>>
              [] Len(t[4]) = 2 -> <<Z3Handle(t[4][1]), Z3Handle(t[4][2])>>
              [] Len(t[4]) = 3 -> <<Z3Handle(t[4][1]), Z3Handle(t[4][2]),
                                    Z3Handle(t[4][3])>>,
            LAMBDA args :
              <<t[1], t[2], t[3], args,
                Z3SortOf(t[1], t[2], t[3],
                         CASE Len(args) = 0 -> <<>>
                           [] Len(args) = 1 -> <<args[1][5]>>
                           [] Len(args) = 2 -> <<args[1][5], args[2][5]>>
                           [] Len(args) = 3 -> <<args[1][5], args[2][5], args[3][5]>>)>>)

\* Z3 reported an error while the term was made: the handler has aborted
IsError(t) == Z3_get_sort(t) = ErrSort

-----------------------------------------------------------------------------
(* Z3Builder's helpers, Z3Builder.cpp lines 93-417.                        *)

buildArray(name, indexWidth, valueWidth) ==
  Z3_mk_sorted("const", name, <<>>,
               getArraySort(getBvSort(indexWidth), getBvSort(valueWidth)))

getTrue == Z3_mk("true", <<>>, <<>>)
getFalse == Z3_mk("false", <<>>, <<>>)

bvConst32(width, value) ==
  Z3_mk_sorted("bv", Mask(Lo32(value), width), <<>>, getBvSort(width))

bvConst64(width, value) ==
  Z3_mk_sorted("bv", Mask(value, width), <<>>, getBvSort(width))

concatExpr(lhs, rhs) == Z3_mk("concat", <<>>, <<lhs, rhs>>)
concatExpr3(a, b, c) == concatExpr(concatExpr(a, b), c)
concatExpr4(a, b, c, d) == concatExpr(concatExpr(concatExpr(a, b), c), d)

RECURSIVE ZeroChunks(_, _)
\* the loop of bvZExtConst: for (width -= 64; width > 64; width -= 64)
ZeroChunks(width, expr) ==
  IF width > 64 THEN ZeroChunks(width - 64, concatExpr(bvConst64(64, U64(0)), expr))
  ELSE concatExpr(bvConst64(width, U64(0)), expr)

bvZExtConst(width, value) ==
  IF width <= 64 THEN bvConst64(width, value)
  ELSE ZeroChunks(width - 64, bvConst64(64, value))

bvSExtConst(width, value) ==
  IF width <= 64 THEN bvConst64(width, value)
  ELSE IF value[4] >= 32768
       THEN concatExpr(Z3_mk_sorted("bv", Mask(AllOnes64, width - 64), <<>>,
                                    getBvSort(width - 64)), bvConst64(64, value))
       ELSE concatExpr(Z3_mk_sorted("bv", U64(0), <<>>, getBvSort(width - 64)),
                       bvConst64(64, value))

bvOne(width) == bvZExtConst(width, U64(1))
bvZero(width) == bvZExtConst(width, U64(0))
bvMinusOne(width) == bvSExtConst(width, AllOnes64)

bvExtract(expr, top, bottom) == Z3_mk("extract", <<top, bottom>>, <<expr>>)
extractExpr(high, low, expr) == Z3_mk("extract", <<high, low>>, <<expr>>)
eqExpr(a, b) == Z3_mk("=", <<>>, <<a, b>>)
bvBoolExtract(expr, bit) == eqExpr(bvExtract(expr, bit, bit), bvOne(1))

iteExpr(condition, whenTrue, whenFalse) ==
  Z3_mk("ite", <<>>, <<condition, whenTrue, whenFalse>>)

\* 0 stands for the value read after Z3 reported an error
Z3_get_bv_sort_size(sort) == IF IsBV(sort) THEN sort[2] ELSE 0

getBVLength(expr) == Z3_get_bv_sort_size(Z3_get_sort(expr))

\* a right shift that keeps the low bits of the operand
bvRightShift_low(expr, shift) ==
  With(getBVLength(expr), LAMBDA width :
    IF shift = 0 THEN expr
    ELSE IF shift >= width THEN bvZero(width)
    ELSE concatExpr(bvZero(shift), bvExtract(expr, width - shift - 1, 0)))

bvRightShift(expr, shift) ==
  With(getBVLength(expr), LAMBDA width :
    IF shift = 0 THEN expr
    ELSE IF shift >= width THEN bvZero(width)
    ELSE concatExpr(bvZero(shift), bvExtract(expr, width - 1, shift)))

\* a left shift that keeps the high bits of the operand
bvLeftShift_high(expr, shift) ==
  With(getBVLength(expr), LAMBDA width :
    IF shift = 0 THEN expr
    ELSE IF shift >= width THEN bvZero(width)
    ELSE concatExpr(bvExtract(expr, width - 1, shift), bvZero(shift)))

bvLeftShift(expr, shift) ==
  With(getBVLength(expr), LAMBDA width :
    IF shift = 0 THEN expr
    ELSE IF shift >= width THEN bvZero(width)
    ELSE concatExpr(bvExtract(expr, width - shift - 1, 0), bvZero(shift)))

bvLtExpr(lhs, rhs) == Z3_mk("bvult", <<>>, <<lhs, rhs>>)
bvLeExpr(lhs, rhs) == Z3_mk("bvule", <<>>, <<lhs, rhs>>)
sbvLtExpr(lhs, rhs) == Z3_mk("bvslt", <<>>, <<lhs, rhs>>)
sbvLeExpr(lhs, rhs) == Z3_mk("bvsle", <<>>, <<lhs, rhs>>)

RECURSIVE VarShiftChain_swapped(_, _, _, _, _)
\* a chain that shifts to the other side
VarShiftChain_swapped(expr, shift, i, res, left) ==
  IF i < 0 THEN res
  ELSE VarShiftChain_swapped(expr, shift, i - 1,
         iteExpr(eqExpr(shift, bvConst32(getBVLength(expr), U64(i))),
                 IF left THEN bvRightShift(expr, i) ELSE bvLeftShift(expr, i), res),
         left)

RECURSIVE VarShiftChain(_, _, _, _, _)
\* for (int i = width - 1; i >= 0; i--) res = ite(shift == i, byConst(expr, i), res)
VarShiftChain(expr, shift, i, res, left) ==
  IF i < 0 THEN res
  ELSE VarShiftChain(expr, shift, i - 1,
         iteExpr(eqExpr(shift, bvConst32(getBVLength(expr), U64(i))),
                 IF left THEN bvLeftShift(expr, i) ELSE bvRightShift(expr, i), res),
         left)

bvVarLeftShift(expr, shift) ==
  With(getBVLength(expr), LAMBDA width :
    With(bvZero(width), LAMBDA zero :
      \* ite(shift < width, res, 0)
      iteExpr(bvLtExpr(shift, bvConst32(getBVLength(shift), U64(width))),
              VarShiftChain(expr, shift, width - 1, zero, TRUE), zero)))

bvVarRightShift(expr, shift) ==
  With(getBVLength(expr), LAMBDA width :
    With(bvZero(width), LAMBDA zero :
      \* ite(shift < width, res, 0)
      iteExpr(bvLtExpr(shift, bvConst32(getBVLength(shift), U64(width))),
              VarShiftChain(expr, shift, width - 1, zero, FALSE), zero)))

constructAShrByConstant(expr, shift, isSigned) ==
  With(getBVLength(expr), LAMBDA width :
    IF shift = 0 THEN expr
    ELSE IF shift >= width THEN bvZero(width)
    ELSE iteExpr(isSigned,
                 concatExpr(bvMinusOne(shift), bvExtract(expr, width - 1, shift)),
                 bvRightShift(expr, shift)))

RECURSIVE AShrChain(_, _, _, _, _)
\* for (int i = width - 2; i >= 0; i--) res = ite(shift == i, ashr(expr, i), res)
AShrChain(expr, shift, i, res, signedBool) ==
  IF i < 0 THEN res
  ELSE AShrChain(expr, shift, i - 1,
         iteExpr(eqExpr(shift, bvConst32(getBVLength(expr), U64(i))),
                 constructAShrByConstant(expr, i, signedBool), res),
         signedBool)

\* the chain started from zero instead of the shift by width - 1
bvVarArithRightShift_zero(expr, shift) ==
  With(getBVLength(expr), LAMBDA width :
    With(bvBoolExtract(expr, width - 1), LAMBDA signedBool :
      iteExpr(bvLtExpr(shift, bvConst32(getBVLength(shift), U64(width))),
              AShrChain(expr, shift, width - 2, bvZero(width), signedBool),
              bvZero(width))))

bvVarArithRightShift(expr, shift) ==
  With(getBVLength(expr), LAMBDA width :
    With(bvBoolExtract(expr, width - 1), LAMBDA signedBool :
      \* ite(shift < width, res, 0)
      iteExpr(bvLtExpr(shift, bvConst32(getBVLength(shift), U64(width))),
              AShrChain(expr, shift, width - 2,
                        constructAShrByConstant(expr, width - 1, signedBool), signedBool),
              bvZero(width))))

notExpr(expr) == Z3_mk("not", <<>>, <<expr>>)
bvNotExpr(expr) == Z3_mk("bvnot", <<>>, <<expr>>)
andExpr(lhs, rhs) == Z3_mk("and", <<>>, <<lhs, rhs>>)
bvAndExpr(lhs, rhs) == Z3_mk("bvand", <<>>, <<lhs, rhs>>)
orExpr(lhs, rhs) == Z3_mk("or", <<>>, <<lhs, rhs>>)
orExpr3(a, b, c) == Z3_mk("or", <<>>, <<a, b, c>>)
bvOrExpr(lhs, rhs) == Z3_mk("bvor", <<>>, <<lhs, rhs>>)
bvXorExpr(lhs, rhs) == Z3_mk("bvxor", <<>>, <<lhs, rhs>>)
bvRedorExpr(expr) == Z3_mk("bvredor", <<>>, <<expr>>)

\* the two asserts of iffExpr hold exactly when Z3_mk_iff is well sorted
iffExpr(lhs, rhs) == Z3_mk("iff", <<>>, <<lhs, rhs>>)

bvSignExtend(src, width) ==
  Z3_mk("sign_ext", <<width - getBVLength(src)>>, <<src>>)

isNanExpr(expr) == Z3_mk("fp.isNaN", <<>>, <<expr>>)
isInfinityExpr(expr) == Z3_mk("fp.isInfinite", <<>>, <<expr>>)
isFPZeroExpr(expr) == Z3_mk("fp.isZero", <<>>, <<expr>>)
isSubnormalExpr(expr) == Z3_mk("fp.isSubnormal", <<>>, <<expr>>)
isFPNegativeExpr(expr) == Z3_mk("fp.isNegative", <<>>, <<expr>>)

\* rm is one of "RNE", "RTP", "RTN", "RTZ", "RNA"; anything else takes default:
getRoundingModeAST(rm) ==
  <<"rm", RmSort, <<IF rm \in {"RTP", "RTN", "RTZ", "RNA"} THEN rm ELSE "RNE">>, <<>>>>

fpNan(sort) == Z3_mk_sorted("fp.nan", <<>>, <<>>, sort)
fpZero(sort) == Z3_mk_sorted("fp.zero", <<>>, <<>>, sort)
\* a write that is lost
writeExpr_lost(array, index, value) == array

writeExpr(array, index, value) == Z3_mk("store", <<>>, <<array, index, value>>)
readExpr(array, index) == Z3_mk("select", <<>>, <<array, index>>)

-----------------------------------------------------------------------------
(* The translator: getInitialArray, getArrayForUpdate, construct and       *)
(* constructActual, as operators on the Builder state st they thread:      *)
(*   constructed, array_hash, update_node_hash   the caches                *)
(*   abort       the process has terminated (abort(), or a Z3 error that   *)
(*               custom_z3_error_handler turned into abort())              *)
(*   junk        the value an uninitialized int holds                      *)
(*   nconstruct  calls of construct; actual: the expressions passed to     *)
(*               constructActual, in order (stats::queryConstructs is its  *)
(*               length); hits: expressions served from the cache;         *)
(*               ret: <<e, ast, width>> for each construct that returned   *)
(* An IR expression is <<kind, width, ...>>; an Array root is a record; an *)
(* UpdateNode is <<id, index, value, next>> with <<>> the null pointer.    *)
(* The argument w0 of construct is the value *width_out holds on entry, so *)
(* that a path that never writes it returns what was there.                *)
(***************************************************************************)

R(ast, width, st) == [ast |-> ast, width |-> width, st |-> st]

\* assert(cond): terminates the process unless compiled out
cassert(cond, st) == IF NDEBUG \/ cond THEN st ELSE [st EXCEPT !.abort = TRUE]

\* a test that takes no node for a constant
isa_ConstantExpr_never(e) == FALSE

isa_ConstantExpr(e) == e[1] = "Constant"

Digit(d) == <<"0", "1", "2", "3", "4", "5", "6", "7", "8", "9">>[d + 1]

RECURSIVE itostr(_)
itostr(n) == IF n < 10 THEN <<Digit(n)>> ELSE itostr(n \div 10) \o <<Digit(n % 10)>>

\* std::string::substr(0, n)
substr0(str, n) == SubSeq(str, 1, IF n < Len(str) THEN n ELSE Len(str))

\* the name getInitialArray gives the array constant of a root, lines 428-433
unique_name(name, size) ==
  LET unique_id == itostr(size)
      uid_length == Len(unique_id)
      space == IF Len(name) > 32 - uid_length THEN 32 - uid_length ELSE Len(name)
  IN substr0(name, space) \o unique_id

\* std::map insert / operator[] on a key that is absent; insert keeps an old entry
MapInsert(map, key, value) ==
  IF key \in DOMAIN map THEN map ELSE (key :> value) @@ map

\* the 80-bit float: an array over one bit, the number at 0, the sentinel at 1
F80Name == <<"[", "F", "8", "0", ",", " ", "u", "n", "n", "o", "r", "m", "a", "l", "]">>
F80Sort == Z3_mk_fpa_sort(15, 64)
\* an array that holds the number only
F80Array_number(number, sentinel) ==
  Z3_mk("store", <<>>,
        <<Z3_mk_sorted("const", F80Name, <<>>, getArraySort(getBvSort(1), F80Sort)),
          bvZero(1), number>>)

F80Array(number, sentinel) ==
  writeExpr(writeExpr(Z3_mk_sorted("const", F80Name, <<>>,
                                   getArraySort(getBvSort(1), F80Sort)),
                      bvZero(1), number), bvOne(1), sentinel)

\* switch (*width_out) { case 16: ... case 128: } without a default: the sort
\* handle stays null for any other width and Z3 reports an error
FloatSort(width) ==
  CASE width = 16 -> Z3_mk_fpa_sort(5, 11)
    [] width = 32 -> Z3_mk_fpa_sort(8, 24)
    [] width = 64 -> Z3_mk_fpa_sort(11, 53)
    [] width = 80 -> F80Sort
    [] width = 128 -> Z3_mk_fpa_sort(15, 113)
    [] OTHER -> ErrSort

\* ConstantExpr::getZExtValue of the low 64 bits, and Extract(64, width - 64)
Low64(v) == <<v[1], v[2], v[3], v[4]>>
DropLow64(v) == SubSeq(v, 5, Len(v)) \o <<0, 0, 0, 0>>

RECURSIVE ConstChunks_low(_, _, _)
\* each chunk put on the low side of the result
ConstChunks_low(tmpWidth, tmpValue, Res) ==
  IF tmpWidth > 64
  THEN LET w == tmpWidth - 64
           v == DropLow64(tmpValue)
           Width == IF w < 64 THEN w ELSE 64
       IN ConstChunks_low(w, v, concatExpr(Res, bvConst64(Width, Mask(Low64(v), Width))))
  ELSE Res

RECURSIVE ConstChunks(_, _, _)
\* while (Tmp->getWidth() > 64) { Tmp = Tmp->Extract(64, ...); Res = concat(chunk, Res) }
ConstChunks(tmpWidth, tmpValue, Res) ==
  IF tmpWidth > 64
  THEN LET w == tmpWidth - 64
           v == DropLow64(tmpValue)
           Width == IF w < 64 THEN w ELSE 64
       IN ConstChunks(w, v, concatExpr(bvConst64(Width, Mask(Low64(v), Width)), Res))
  ELSE Res

constantAST(e) ==
  LET width == e[2] IN
  IF width = 1 THEN (IF Low64(e[3]) = U64(1) THEN getTrue ELSE getFalse)
  ELSE IF width <= 32 THEN bvConst32(width, Low64(e[3]))
  ELSE IF width <= 64 THEN bvConst64(width, Low64(e[3]))
  ELSE ConstChunks(width, e[3], bvConst64(64, Low64(e[3])))

\* FConstant: e[3] is bitcastToAPInt().getRawData(), a sequence of words
fconstantAST(e) ==
  LET width == e[2] IN
  CASE width = 32 -> Z3_mk_sorted("fp.numeral", Mask(e[3][1], 32), <<>>, FloatSort(32))
    [] width = 64 -> Z3_mk_sorted("fp.numeral", e[3][1], <<>>, FloatSort(64))
    [] width = 80 ->
         LET sign == (e[3][2][1] \div 32768) % 2
             exp == e[3][2][1] % 32768
             mnt == e[3][1]
             correctHiddenBit == ((exp = 0) = (mnt[4] \div 32768 = 0))
             mnt63 == <<mnt[1], mnt[2], mnt[3], mnt[4] % 32768>>
             \* Z3_mk_unsigned_int takes an unsigned: the arguments are cut to 32 bits
             conv == Z3_mk("fp", <<>>,
                       << Z3_mk_sorted("bv", Mask(U64(sign), 1), <<>>, getBvSort(1)),
                          Z3_mk_sorted("bv", Mask(U64(exp), 15), <<>>, getBvSort(15)),
                          Z3_mk_sorted("bv", Mask(Lo32(mnt63), 63), <<>>, getBvSort(63)) >>)
         IN F80Array(conv, IF correctHiddenBit THEN fpZero(F80Sort) ELSE fpNan(F80Sort))
    [] OTHER -> ErrTerm

\* bits64::isPowerOfTwo and bits64::indexOfSingleBit on a 64-bit word
BitWord(n) == [i \in 1..4 |-> IF i = (n \div 16) + 1 THEN 2 ^ (n % 16) ELSE 0]
\* no word is a power of two
isPowerOfTwo_never(v) == FALSE

isPowerOfTwo(v) == \E n \in 0..63 : \A i \in 1..4 : v[i] = BitWord(n)[i]
indexOfSingleBit(v) == CHOOSE n \in 0..63 : \A i \in 1..4 : v[i] = BitWord(n)[i]

\* (unsigned) CE->getLimitedValue(): the low 32 bits of the word.  Values from
\* 65536 up are all at least any width of the model and stand as 65536 + low limb.
ToUnsigned(v) == IF v[2] = 0 THEN v[1] ELSE 65536 + v[1]

\* reading an 80-bit float: the number, and whether the sentinel says unnormal
F80Number(arr) == readExpr(arr, bvZero(1))
F80Wrong_number(arr) == isNanExpr(readExpr(arr, bvZero(1)))
F80Wrong(arr) == isNanExpr(readExpr(arr, bvOne(1)))

IsFloatWidth(w) == w \in {32, 64, 80}

\* the Z3 operator of each kind that maps onto one
NativeOp(kind) ==
  CASE kind = "Add" -> "bvadd" [] kind = "Sub" -> "bvsub" [] kind = "Mul" -> "bvmul"
    [] kind = "UDiv" -> "bvudiv" [] kind = "SDiv" -> "bvsdiv"
    [] kind = "URem" -> "bvurem" [] kind = "SRem" -> "bvsrem"
    [] kind = "Ult" -> "bvult" [] kind = "Ule" -> "bvule"
    [] kind = "Slt" -> "bvslt" [] kind = "Sle" -> "bvsle"
    [] kind = "FAdd" -> "fp.add" [] kind = "FSub" -> "fp.sub"
    [] kind = "FMul" -> "fp.mul" [] kind = "FDiv" -> "fp.div"
    [] kind = "FRem" -> "fp.rem" [] kind = "FMin" -> "fp.min" [] kind = "FMax" -> "fp.max"
    [] kind = "FSqrt" -> "fp.sqrt" [] kind = "FNearbyInt" -> "fp.roundToIntegral"
    [] kind \in {"FUeq", "FOeq", "FUne", "FOne"} -> "fp.eq"
    [] kind \in {"FUgt", "FOgt"} -> "fp.gt" [] kind \in {"FUge", "FOge"} -> "fp.geq"
    [] kind \in {"FUlt", "FOlt"} -> "fp.lt" [] kind \in {"FUle", "FOle"} -> "fp.leq"

\* Z3_mk_fpa_add .. div take the rounding mode, Z3_mk_fpa_rem does not
FpArith(kind, rm, left, right) ==
  IF kind = "FRem" THEN Z3_mk("fp.rem", <<>>, <<left, right>>)
  ELSE Z3_mk(NativeOp(kind), <<>>, <<getRoundingModeAST(rm), left, right>>)

\* comparisons that take no notice of unnormal operands
FpCompareOf_plain(kind, f80, wrongHiddenBit, left, right) ==
  With(Z3_mk(NativeOp(kind), <<>>, <<left, right>>), LAMBDA cmp :
    With(orExpr3(isNanExpr(left), isNanExpr(right), cmp), LAMBDA unord :
      CASE kind \in {"FUeq", "FUgt", "FUge", "FUlt", "FUle"} -> unord
        [] kind \in {"FOeq", "FOgt", "FOge", "FOlt", "FOle"} -> cmp
        [] kind = "FUne" -> notExpr(cmp)
        [] kind = "FOne" -> notExpr(unord)))

\* the floating-point comparisons, lines 1554-1866
\* the result for operands left and right; at Fl80 they are the numbers read from
\* the arrays and wrongHiddenBit says that one of the two is unnormal
FpCompareOf(kind, f80, wrongHiddenBit, left, right) ==
  With(Z3_mk(NativeOp(kind), <<>>, <<left, right>>), LAMBDA cmp :
    With(orExpr3(isNanExpr(left), isNanExpr(right), cmp), LAMBDA unord :
      CASE kind \in {"FUeq", "FUgt", "FUge", "FUlt", "FUle"} ->
             IF f80 THEN andExpr(notExpr(wrongHiddenBit), unord) ELSE unord
        [] kind \in {"FOeq", "FOgt", "FOge", "FOlt", "FOle"} ->
             IF f80 THEN andExpr(notExpr(wrongHiddenBit), cmp) ELSE cmp
        [] kind = "FUne" ->
             IF f80 THEN orExpr(wrongHiddenBit, notExpr(cmp)) ELSE notExpr(cmp)
        [] kind = "FOne" ->
             IF f80 THEN orExpr(wrongHiddenBit, notExpr(unord)) ELSE notExpr(unord)))

FpCompare(kind, width, left0, right0) ==
  IF width = 80
  THEN FpCompareOf(kind, TRUE, orExpr(F80Wrong(left0), F80Wrong(right0)),
                   F80Number(left0), F80Number(right0))
  ELSE FpCompareOf(kind, FALSE, getFalse, left0, right0)

\* FP_NAN .. FP_NORMAL of <math.h> are 0 .. 4; sizeof(int) * 8 is 32
FpClassifyAST(expr) ==
  iteExpr(isNanExpr(expr), bvSExtConst(32, U64(0)),
    iteExpr(isInfinityExpr(expr), bvSExtConst(32, U64(1)),
      iteExpr(isFPZeroExpr(expr), bvSExtConst(32, U64(2)),
        iteExpr(isSubnormalExpr(expr), bvSExtConst(32, U64(3)),
                bvSExtConst(32, U64(4))))))

FIsInfAST(expr) ==
  iteExpr(isInfinityExpr(expr),
          iteExpr(isFPNegativeExpr(expr), bvMinusOne(32), bvOne(32)), bvZero(32))

\* ExplicitFloat at Fl80, lines 845-863
ExplicitFloat80(src) ==
  With(extractExpr(78, 64, src), LAMBDA exp :
    F80Array(Z3_mk_sorted("to_fp_bv", <<>>,
                          <<concatExpr3(extractExpr(79, 79, src), exp,
                                        extractExpr(62, 0, src))>>, F80Sort),
             \* correctHiddenBit: hiddenBit = ite(bvredor(exp) = 0, 0, 1)
             iteExpr(eqExpr(extractExpr(63, 63, src),
                            iteExpr(eqExpr(bvRedorExpr(exp), bvZero(1)), bvZero(1), bvOne(1))),
                     fpZero(F80Sort), fpNan(F80Sort))))

\* ExplicitInt, lines 876-890
ExplicitIntAST(src, width) ==
  With(Z3_mk("fp.to_ieee_bv", <<>>, <<src>>), LAMBDA ret :
    IF width = 80
    THEN With(extractExpr(77, 63, ret), LAMBDA exp :
           concatExpr4(extractExpr(78, 78, ret), exp,
                       iteExpr(eqExpr(bvRedorExpr(exp), bvZero(1)), bvZero(1), bvOne(1)),
                       extractExpr(62, 0, ret)))
    ELSE ret)

\* std::numeric_limits<int32_t>::min() and <int64_t>::min() converted to uint64_t
Int32MinWord == <<0, 32768, 65535, 65535>>
Int64MinWord == <<0, 0, 0, 32768>>

-----------------------------------------------------------------------------
RECURSIVE construct(_, _, _), constructActual(_, _, _), constructKind(_, _, _),
          getInitialArray(_, _), getArrayForUpdate(_, _, _),
          FlushConstants(_, _, _, _), ConcatKids(_, _, _, _)

\* left = construct(e->left, width_out); right = construct(e->right, width_out);
Kids(e, w0, st) ==
  LET l == construct(e[3], w0, st)
      r == construct(e[4], l.width, l.st)
  IN [left |-> l.ast, right |-> r.ast, width |-> r.width, st |-> r.st]

\* the arguments construct(a, 0), construct(b, 0) of one call, in the build's order
TwoArgs(a, b, st) ==
  With(construct(IF argsRightToLeft THEN b ELSE a, st.junk, st), LAMBDA one :
    With(construct(IF argsRightToLeft THEN a ELSE b, st.junk, one.st), LAMBDA two :
      [a |-> IF argsRightToLeft THEN two.ast ELSE one.ast,
       b |-> IF argsRightToLeft THEN one.ast ELSE two.ast, st |-> two.st]))

\* a flush that leaves the last cell of the array unwritten
RECURSIVE FlushConstants_short(_, _, _, _)
FlushConstants_short(root, i, array_expr, st) ==
  IF i + 1 >= root.size THEN [ast |-> array_expr, st |-> st]
  ELSE With(TwoArgs(<<"Constant", root.domain, U64(i)>>, root.constantValues[i + 1], st),
            LAMBDA kv :
              FlushConstants_short(root, i + 1, writeExpr(array_expr, kv.a, kv.b), kv.st))

\* for (i = 0; i != root->size; ++i) array_expr = writeExpr(prev, construct(i), construct(values[i]))
FlushConstants(root, i, array_expr, st) ==
  IF i = root.size THEN [ast |-> array_expr, st |-> st]
  ELSE With(TwoArgs(<<"Constant", root.domain, U64(i)>>, root.constantValues[i + 1], st),
            LAMBDA kv :
              FlushConstants(root, i + 1, writeExpr(array_expr, kv.a, kv.b), kv.st))

\* a lookup that never finds the root
lookupArrayExpr_miss(root, st) == FALSE

\* bool hashed = _arr_hash.lookupArrayExpr(root, array_expr), line 423
lookupArrayExpr(root, st) == root \in DOMAIN st.array_hash

\* the counter taken from the size of the construct cache
arrayCounter_constructed(st) == Cardinality(DOMAIN st.constructed)

\* _arr_hash._array_hash.size(), the counter that makes the name unique, line 428
arrayCounter(st) == Cardinality(DOMAIN st.array_hash)

getInitialArray(root, st) ==
  IF st.abort THEN [ast |-> ErrTerm, st |-> st]
  ELSE IF lookupArrayExpr(root, st) THEN [ast |-> st.array_hash[root], st |-> st]
  ELSE With(buildArray(unique_name(root.name, arrayCounter(st)), root.domain, root.range),
            LAMBDA array_expr :
       With(IF root.isConstantArray THEN FlushConstants(root, 0, array_expr, st)
            ELSE [ast |-> array_expr, st |-> st],
            LAMBDA flushed :
       With(Z3Handle(flushed.ast), LAMBDA ast :
              IF flushed.st.abort \/ IsError(ast)
              THEN [ast |-> ErrTerm, st |-> [flushed.st EXCEPT !.abort = TRUE]]
              ELSE \* _arr_hash.hashArrayExpr(root, array_expr), line 451
                   [ast |-> ast,
                    st |-> [flushed.st EXCEPT !.array_hash = MapInsert(@, root, ast)]])))

\* _arr_hash.hashUpdateNodeExpr(un, un_expr); return un_expr, lines 473-476
\* a cache of update nodes that forgets what it is given
hashUpdateNodeExpr_forget(un, un_expr, st) ==
  With(Z3Handle(un_expr), LAMBDA ast :
    IF st.abort \/ IsError(ast)
    THEN [ast |-> ErrTerm, st |-> [st EXCEPT !.abort = TRUE]]
    ELSE [ast |-> ast, st |-> st])

hashUpdateNodeExpr(un, un_expr, st) ==
  With(Z3Handle(un_expr), LAMBDA ast :
    IF st.abort \/ IsError(ast)
    THEN [ast |-> ErrTerm, st |-> [st EXCEPT !.abort = TRUE]]
    ELSE [ast |-> ast, st |-> [st EXCEPT !.update_node_hash = MapInsert(@, un, ast)]])

getArrayForUpdate(root, un, st) ==
  IF st.abort THEN [ast |-> ErrTerm, st |-> st]
  ELSE IF un = <<>> THEN getInitialArray(root, st)
  ELSE IF un \in DOMAIN st.update_node_hash
       THEN [ast |-> st.update_node_hash[un], st |-> st]
  ELSE \* writeExpr(getArrayForUpdate(root, un->next), construct(index), construct(value))
       IF argsRightToLeft
       THEN With(construct(un[3], st.junk, st), LAMBDA v :
              With(construct(un[2], st.junk, v.st), LAMBDA i :
                With(getArrayForUpdate(root, un[4], i.st), LAMBDA a :
                  hashUpdateNodeExpr(un, writeExpr(a.ast, i.ast, v.ast), a.st))))
       ELSE With(getArrayForUpdate(root, un[4], st), LAMBDA a :
              With(construct(un[2], st.junk, a.st), LAMBDA i :
                With(construct(un[3], st.junk, i.st), LAMBDA v :
                  hashUpdateNodeExpr(un, writeExpr(a.ast, i.ast, v.ast), v.st))))

\* for (int i = numKids - 2; i >= 0; i--) res = concatExpr(construct(kid i, 0), res)
ConcatKids(kids, i, res, st) ==
  IF i < 1 THEN [ast |-> res, st |-> st]
  ELSE LET k == construct(kids[i], st.junk, st)
       IN ConcatKids(kids, i - 1, concatExpr(k.ast, res), k.st)

\* the option read the wrong way round
bypassCache_inverted(e) == UseConstructHashZ3 \/ isa_ConstantExpr(e)

\* the cache bypassed for constants only while hash-consing is off
bypassCache_and(e) == ~UseConstructHashZ3 /\ isa_ConstantExpr(e)

\* if (!UseConstructHashZ3 || isa<ConstantExpr>(e)), line 485
bypassCache(e) == ~UseConstructHashZ3 \/ isa_ConstantExpr(e)

\* a construct call returns: the triple is added to st.ret
returns(e, ast, width, st) ==
  R(ast, width, [st EXCEPT !.ret = @ \cup {<<e, ast, width>>}])

\* a cache hit that leaves *width_out as the caller passed it
construct_stale_width(e, w0, st) ==
  IF st.abort THEN R(ErrTerm, w0, st)
  ELSE IF ~bypassCache(e) /\ e \in DOMAIN st.constructed
  THEN returns(e, st.constructed[e][1], w0,
               [st EXCEPT !.nconstruct = @ + 1, !.hits = @ \cup {e}])
  ELSE With(constructActual(e, w0, [st EXCEPT !.nconstruct = @ + 1]), LAMBDA res :
       With(Z3Handle(res.ast), LAMBDA ast :
         IF res.st.abort \/ IsError(ast)
         THEN R(ErrTerm, res.width, [res.st EXCEPT !.abort = TRUE])
         ELSE IF bypassCache(e) THEN returns(e, ast, res.width, res.st)
         ELSE returns(e, ast, res.width,
                      [res.st EXCEPT !.constructed = MapInsert(@, e, <<ast, res.width>>)])))

\* a cache miss that inserts nothing
construct_forget(e, w0, st) ==
  IF st.abort THEN R(ErrTerm, w0, st)
  ELSE IF ~bypassCache(e) /\ e \in DOMAIN st.constructed
  THEN returns(e, st.constructed[e][1], st.constructed[e][2],
               [st EXCEPT !.nconstruct = @ + 1, !.hits = @ \cup {e}])
  ELSE With(constructActual(e, w0, [st EXCEPT !.nconstruct = @ + 1]), LAMBDA res :
       With(Z3Handle(res.ast), LAMBDA ast :
         IF res.st.abort \/ IsError(ast)
         THEN R(ErrTerm, res.width, [res.st EXCEPT !.abort = TRUE])
         ELSE returns(e, ast, res.width, res.st)))

construct(e, w0, st) ==
  IF st.abort THEN R(ErrTerm, w0, st)
  ELSE IF ~bypassCache(e) /\ e \in DOMAIN st.constructed
  THEN \* if (width_out) *width_out = it->second.second; return it->second.first;
       returns(e, st.constructed[e][1], st.constructed[e][2],
               [st EXCEPT !.nconstruct = @ + 1, !.hits = @ \cup {e}])
  ELSE With(constructActual(e, w0, [st EXCEPT !.nconstruct = @ + 1]), LAMBDA res :
       With(Z3Handle(res.ast), LAMBDA ast :
         IF res.st.abort \/ IsError(ast)
         THEN R(ErrTerm, res.width, [res.st EXCEPT !.abort = TRUE])
         ELSE IF bypassCache(e) THEN returns(e, ast, res.width, res.st)
         ELSE \* constructed.insert(std::make_pair(e, std::make_pair(res, *width_out)))
              returns(e, ast, res.width,
                      [res.st EXCEPT !.constructed = MapInsert(@, e, <<ast, res.width>>)])))

constructActual(e, w0, st) ==
  constructKind(e, w0, [st EXCEPT !.actual = Append(@, e)])

\* the switch of constructActual, lines 514-1881
constructKind(e, w0, st) ==
  LET kind == e[1]
      \* the operand of a unary node or cast, with *width_out passed down
      U == construct(e[3], w0, st)
      \* the operand of a cast that reads the width into a local srcWidth
      S == construct(e[3], st.junk, st)
      K == Kids(e, w0, st)
      floatOk(w, s) == cassert(IsFloatWidth(w), s)
      widthOk(res, w, s) == cassert(getBVLength(res) = w, s)
      \* the operands the case constructs before anything else
      first ==
        CASE kind \in {"NotOptimized", "Extract", "ExplicitFloat", "ExplicitInt", "FAbs",
                       "FpClassify", "FIsFinite", "FIsNan", "FIsInf", "FSqrt",
                       "FNearbyInt", "Not"} -> U
          [] kind \in {"ZExt", "SExt", "FExt", "FToU", "FToS", "UToF", "SToF"} -> S
          [] kind \in {"Add", "Sub", "SRem", "And", "Or", "Xor", "FAdd", "FSub", "FMul",
                       "FDiv", "FRem", "FMin", "FMax", "Eq", "Ult", "Ule", "Slt", "Sle",
                       "FOrd", "FUno", "FUeq", "FOeq", "FUgt", "FOgt", "FUge", "FOge",
                       "FUlt", "FOlt", "FUle", "FOle", "FUne", "FOne"} -> K
          [] OTHER -> R(ErrTerm, w0, st)
  IN
  \* a callee that terminated the process does not return
  IF first.st.abort THEN R(ErrTerm, w0, first.st) ELSE
  CASE kind = "Constant" -> R(constantAST(e), e[2], st)
    [] kind = "FConstant" ->
         \* a width other than Fl32, Fl64, Fl80 leaves the inner switch and falls into
         \* case NotOptimized, where cast<NotOptimizedExpr> of this node fails
         IF IsFloatWidth(e[2]) THEN R(fconstantAST(e), e[2], st)
         ELSE R(ErrTerm, e[2], [st EXCEPT !.abort = TRUE])
    [] kind = "NotOptimized" -> U
    [] kind = "Read" ->
         \* *width_out = root->getRange();
         \* return readExpr(getArrayForUpdate(root, head), construct(index, 0));
         IF argsRightToLeft
         THEN With(construct(e[5], st.junk, st), LAMBDA i :
                With(getArrayForUpdate(e[3], e[4], i.st), LAMBDA a :
                  IF a.st.abort THEN R(ErrTerm, e[3].range, a.st)
                  ELSE R(readExpr(a.ast, i.ast), e[3].range, a.st)))
         ELSE With(getArrayForUpdate(e[3], e[4], st), LAMBDA a :
                With(construct(e[5], st.junk, a.st), LAMBDA i :
                  IF i.st.abort THEN R(ErrTerm, e[3].range, i.st)
                  ELSE R(readExpr(a.ast, i.ast), e[3].range, i.st)))
    [] kind \in {"Select", "FSelect"} ->
         LET cond == construct(e[3], st.junk, st)
             tExpr == construct(e[4], w0, cond.st)
             fExpr == construct(e[5], tExpr.width, tExpr.st)
         IN IF fExpr.st.abort THEN fExpr
            ELSE R(iteExpr(cond.ast, tExpr.ast, fExpr.ast), fExpr.width, fExpr.st)
    [] kind = "Concat" ->
         LET numKids == Len(e[3])
             lastKid == construct(e[3][numKids], st.junk, st)
             res == ConcatKids(e[3], numKids - 1, lastKid.ast, lastKid.st)
         IN R(res.ast, e[2], res.st)
    [] kind = "Extract" ->
         IF e[2] = 1 THEN R(bvBoolExtract(U.ast, e[4]), 1, U.st)
         ELSE R(bvExtract(U.ast, e[4] + e[2] - 1, e[4]), e[2], U.st)
    [] kind = "ZExt" ->
         IF S.width = 1 THEN R(iteExpr(S.ast, bvOne(e[2]), bvZero(e[2])), e[2], S.st)
         ELSE R(concatExpr(bvZero(e[2] - S.width), S.ast), e[2], S.st)
    [] kind = "SExt" ->
         IF S.width = 1 THEN R(iteExpr(S.ast, bvMinusOne(e[2]), bvZero(e[2])), e[2], S.st)
         ELSE R(bvSignExtend(S.ast, e[2]), e[2], S.st)
    [] kind = "FExt" ->
         LET rm == getRoundingModeAST(e[4])
             conv(src, sort) == Z3_mk_sorted("to_fp_float", <<>>, <<rm, src>>, sort)
         IN IF e[2] = 80 THEN R(F80Array(conv(S.ast, F80Sort), fpZero(F80Sort)), 80, S.st)
            ELSE IF S.width = 80
            THEN R(iteExpr(F80Wrong(S.ast), fpNan(FloatSort(e[2])),
                           conv(F80Number(S.ast), FloatSort(e[2]))), e[2], S.st)
            ELSE R(conv(S.ast, FloatSort(e[2])), e[2], S.st)
    [] kind = "FToU" ->
         LET rm == getRoundingModeAST(e[4])
             conv(src) == Z3_mk("fp.to_ubv", <<e[2]>>, <<rm, src>>)
         IN IF S.width = 80
            THEN R(iteExpr(F80Wrong(S.ast), bvZero(e[2]), conv(F80Number(S.ast))), e[2], S.st)
            ELSE R(conv(S.ast), e[2], S.st)
    [] kind = "FToS" ->
         LET rm == getRoundingModeAST(e[4])
             conv(src, w) == Z3_mk("fp.to_sbv", <<w>>, <<rm, src>>)
         IN IF S.width = 80
            THEN \* the conversions below are applied to src, not to the number read from it
                 IF e[2] = 32
                 THEN R(iteExpr(F80Wrong(S.ast), bvSExtConst(32, Int32MinWord),
                                conv(S.ast, 32)), e[2], S.st)
                 ELSE IF e[2] = 64
                 THEN R(iteExpr(F80Wrong(S.ast), bvSExtConst(64, Int64MinWord),
                                conv(S.ast, 64)), e[2], S.st)
                 ELSE R(iteExpr(F80Wrong(S.ast), bvZero(e[2]), conv(S.ast, e[2])), e[2], S.st)
            ELSE R(conv(S.ast, e[2]), e[2], S.st)
    [] kind = "UToF" ->
         LET rm == getRoundingModeAST(e[4])
             conv(sort) == Z3_mk_sorted("to_fp_unsigned", <<>>, <<rm, S.ast>>, sort)
         IN IF e[2] = 80 THEN R(F80Array(conv(F80Sort), fpZero(F80Sort)), 80, S.st)
            ELSE R(conv(FloatSort(e[2])), e[2], S.st)
    [] kind = "SToF" ->
         LET rm == getRoundingModeAST(e[4]) IN
         IF e[2] = 80
         THEN R(F80Array(Z3_mk_sorted("to_fp_unsigned", <<>>, <<rm, S.ast>>, F80Sort),
                         fpZero(F80Sort)), 80, S.st)
         ELSE R(Z3_mk_sorted("to_fp_signed", <<>>, <<rm, S.ast>>, FloatSort(e[2])),
                e[2], S.st)
    [] kind = "ExplicitFloat" ->
         IF U.width = 80 THEN R(ExplicitFloat80(U.ast), U.width, U.st)
         ELSE R(Z3_mk_sorted("to_fp_bv", <<>>, <<U.ast>>, FloatSort(U.width)), U.width, U.st)
    [] kind = "ExplicitInt" -> R(ExplicitIntAST(U.ast, U.width), U.width, U.st)
    [] kind = "FAbs" ->
         IF U.width = 80
         THEN R(writeExpr(U.ast, bvZero(1), Z3_mk("fp.abs", <<>>, <<F80Number(U.ast)>>)),
                U.width, floatOk(U.width, U.st))
         ELSE R(Z3_mk("fp.abs", <<>>, <<U.ast>>), U.width, floatOk(U.width, U.st))
    [] kind \in {"FpClassify", "FIsFinite", "FIsNan"} ->
         LET expr == IF U.width = 80 THEN F80Number(U.ast) ELSE U.ast
             st2 == floatOk(U.width, U.st)
         IN R(CASE kind = "FpClassify" -> FpClassifyAST(expr)
                [] kind = "FIsFinite" ->
                     iteExpr(orExpr(isNanExpr(expr), isInfinityExpr(expr)),
                             bvZero(32), bvOne(32))
                [] kind = "FIsNan" -> iteExpr(isNanExpr(expr), bvOne(32), bvZero(32)),
              32, st2)
    [] kind = "FIsInf" ->
         IF U.width = 80
         THEN R(iteExpr(F80Wrong(U.ast), bvZero(32), FIsInfAST(F80Number(U.ast))),
                32, floatOk(U.width, U.st))
         ELSE R(FIsInfAST(U.ast), 32, floatOk(U.width, U.st))
    [] kind \in {"FSqrt", "FNearbyInt"} ->
         LET op(x) == Z3_mk(NativeOp(kind), <<>>, <<getRoundingModeAST(e[4]), x>>) IN
         IF U.width = 80
         THEN R(F80Array(iteExpr(F80Wrong(U.ast), fpNan(F80Sort), op(F80Number(U.ast))),
                         fpZero(F80Sort)), U.width, floatOk(U.width, U.st))
         ELSE R(op(U.ast), U.width, floatOk(U.width, U.st))
    [] kind \in {"Add", "Sub", "SRem"} ->
         LET result == Z3_mk(NativeOp(kind), <<>>, <<K.left, K.right>>)
         IN R(result, K.width, widthOk(result, K.width, cassert(K.width # 1, K.st)))
    [] kind = "Mul" ->
         LET right == construct(e[4], w0, st)
             left == construct(e[3], right.width, cassert(right.width # 1, right.st))
             result == Z3_mk("bvmul", <<>>, <<left.ast, right.ast>>)
         IN IF left.st.abort THEN left
            ELSE R(result, left.width, widthOk(result, left.width, left.st))
    [] kind \in {"UDiv", "SDiv", "URem"} ->
         LET left == construct(e[3], w0, st)
             st2 == cassert(left.width # 1, left.st)
             CE == e[4]
             pow2 == kind # "SDiv" /\ isa_ConstantExpr(CE) /\ CE[2] <= 64
                     /\ isPowerOfTwo(Low64(CE[3]))
             bits == indexOfSingleBit(Low64(CE[3]))
             right == construct(e[4], left.width, st2)
             result == Z3_mk(NativeOp(kind), <<>>, <<left.ast, right.ast>>)
         IN IF st2.abort THEN R(ErrTerm, left.width, st2)
            ELSE IF pow2 /\ kind = "UDiv" THEN R(bvRightShift(left.ast, bits), left.width, st2)
            ELSE IF pow2 /\ kind = "URem"
            THEN IF bits = 0 THEN R(bvZero(left.width), left.width, st2)
                 ELSE R(concatExpr(bvZero(left.width - bits), bvExtract(left.ast, bits - 1, 0)),
                        left.width, st2)
            ELSE IF right.st.abort THEN right
            ELSE R(result, right.width, widthOk(result, right.width, right.st))
    [] kind = "Not" ->
         R(IF U.width = 1 THEN notExpr(U.ast) ELSE bvNotExpr(U.ast), U.width, U.st)
    [] kind = "And" ->
         R(IF K.width = 1 THEN andExpr(K.left, K.right) ELSE bvAndExpr(K.left, K.right),
           K.width, K.st)
    [] kind = "Or" ->
         R(IF K.width = 1 THEN orExpr(K.left, K.right) ELSE bvOrExpr(K.left, K.right),
           K.width, K.st)
    [] kind = "Xor" ->
         R(IF K.width = 1 THEN iteExpr(K.left, notExpr(K.right), K.right)
           ELSE bvXorExpr(K.left, K.right), K.width, K.st)
    [] kind \in {"Shl", "LShr", "AShr"} ->
         LET left == construct(e[3], w0, st)
             st2 == cassert(left.width # 1, left.st)
             CE == e[4]
             shift == ToUnsigned(Low64(CE[3]))
             amount == construct(e[4], st.junk, st2)
         IN IF st2.abort THEN R(ErrTerm, left.width, st2)
            ELSE IF isa_ConstantExpr(CE)
            THEN R(CASE kind = "Shl" -> bvLeftShift(left.ast, shift)
                     [] kind = "LShr" -> bvRightShift(left.ast, shift)
                     [] kind = "AShr" ->
                          constructAShrByConstant(left.ast, shift,
                                                  bvBoolExtract(left.ast, left.width - 1)),
                   left.width, st2)
            ELSE IF amount.st.abort THEN R(ErrTerm, left.width, amount.st)
            ELSE R(CASE kind = "Shl" -> bvVarLeftShift(left.ast, amount.ast)
                     [] kind = "LShr" -> bvVarRightShift(left.ast, amount.ast)
                     [] kind = "AShr" -> bvVarArithRightShift(left.ast, amount.ast),
                   left.width, amount.st)
    [] kind \in {"FAdd", "FSub", "FMul", "FDiv", "FRem"} ->
         LET rm == IF kind = "FRem" THEN "RNE" ELSE e[5]
             wrongHiddenBit == orExpr(F80Wrong(K.left), F80Wrong(K.right))
             result == iteExpr(wrongHiddenBit, fpNan(F80Sort),
                               FpArith(kind, rm, F80Number(K.left), F80Number(K.right)))
         IN IF K.width = 80
            THEN R(F80Array(result, fpZero(F80Sort)), K.width, floatOk(K.width, K.st))
            ELSE R(FpArith(kind, rm, K.left, K.right), K.width, floatOk(K.width, K.st))
    [] kind \in {"FMin", "FMax"} ->
         LET wrongHiddenBitLeft == F80Wrong(K.left)
             wrongHiddenBitRight == F80Wrong(K.right)
             left == F80Number(K.left)
             right == F80Number(K.right)
             result == iteExpr(wrongHiddenBitLeft,
                               iteExpr(wrongHiddenBitRight, left, right),
                               iteExpr(wrongHiddenBitRight, left,
                                       Z3_mk(NativeOp(kind), <<>>, <<left, right>>)))
         IN IF K.width = 80
            THEN R(F80Array(result, fpZero(F80Sort)), K.width, floatOk(K.width, K.st))
            ELSE R(Z3_mk(NativeOp(kind), <<>>, <<K.left, K.right>>), K.width,
                   floatOk(K.width, K.st))
    [] kind = "Eq" ->
         IF K.width = 1
         THEN IF isa_ConstantExpr(e[3])
              THEN R(IF Low64(e[3][3]) = U64(1) THEN K.right ELSE notExpr(K.right),
                     K.width, K.st)
              ELSE R(iffExpr(K.left, K.right), K.width, K.st)
         ELSE R(eqExpr(K.left, K.right), 1, K.st)
    [] kind \in {"Ult", "Ule", "Slt", "Sle"} ->
         R(CASE kind = "Ult" -> bvLtExpr(K.left, K.right)
             [] kind = "Ule" -> bvLeExpr(K.left, K.right)
             [] kind = "Slt" -> sbvLtExpr(K.left, K.right)
             [] kind = "Sle" -> sbvLeExpr(K.left, K.right),
           1, cassert(K.width # 1, K.st))
    [] kind \in {"FOrd", "FUno"} ->
         LET left == IF K.width = 80 THEN F80Number(K.left) ELSE K.left
             right == IF K.width = 80 THEN F80Number(K.right) ELSE K.right
         IN R(IF kind = "FOrd"
              THEN andExpr(notExpr(isNanExpr(left)), notExpr(isNanExpr(right)))
              ELSE orExpr(isNanExpr(left), isNanExpr(right)),
              1, floatOk(K.width, K.st))
    [] kind \in {"FUeq", "FOeq", "FUgt", "FOgt", "FUge", "FOge", "FUlt", "FOlt",
                 "FUle", "FOle", "FUne", "FOne"} ->
         R(FpCompare(kind, K.width, K.left, K.right), 1, floatOk(K.width, K.st))
    [] OTHER ->
         \* default: e->dump(); assert(0 && "unhandled Expr type"); return getTrue();
         R(getTrue, w0, cassert(FALSE, st))

-----------------------------------------------------------------------------
(***************************************************************************)
(* The expression IR the Builder consumes (klee/Expr.h): each node         *)
(* declares its width.                                                     *)
(***************************************************************************)

getWidth(e) == e[2]

ConstantExpr(width, n) == <<"Constant", width, U64(n)>>
FConstantExpr(width, words) == <<"FConstant", width, words>>
NotOptimizedExpr(src) == <<"NotOptimized", getWidth(src), src>>
ReadExpr(root, head, index) == <<"Read", root.range, root, head, index>>
SelectExpr(kind, cond, t, f) == <<kind, getWidth(t), cond, t, f>>
ConcatExpr(l, r) == <<"Concat", getWidth(l) + getWidth(r), <<l, r>>>>
ExtractExpr(src, offset, width) == <<"Extract", width, src, offset>>
\* ZExt, SExt
CastExpr(kind, src, width) == <<kind, width, src>>
\* FExt, FToU, FToS, UToF, SToF
CastRoundExpr(kind, src, width, rm) == <<kind, width, src, rm>>
\* ExplicitFloat, ExplicitInt, FAbs, Not: the width of the operand
SameWidthExpr(kind, src) == <<kind, getWidth(src), src>>
\* FSqrt, FNearbyInt
RoundExpr(kind, src, rm) == <<kind, getWidth(src), src, rm>>
\* FpClassify, FIsFinite, FIsNan, FIsInf: an int
ClassifyExpr(kind, src) == <<kind, 32, src>>
\* Add .. AShr, FRem, FMin, FMax: the width of the operands
BinaryExpr(kind, l, r) == <<kind, getWidth(l), l, r>>
\* FAdd, FSub, FMul, FDiv
FBinaryExpr(kind, l, r, rm) == <<kind, getWidth(l), l, r, rm>>
\* Eq .. Sge, FOrd .. FOne: a Bool
CmpExpr(kind, l, r) == <<kind, 1, l, r>>

UnhandledKinds == {"Ne", "Ugt", "Uge", "Sgt", "Sge"}

\* the direct subexpressions of a node, update lists and constant arrays included
RECURSIVE UpdateKids(_)
UpdateKids(un) == IF un = <<>> THEN {} ELSE {un[2], un[3]} \cup UpdateKids(un[4])

ArrayKids(root) ==
  IF root.isConstantArray THEN {root.constantValues[i] : i \in 1..root.size} ELSE {}

ExprKids(e) ==
  CASE e[1] \in {"Constant", "FConstant"} -> {}
    [] e[1] = "Read" -> {e[5]} \cup UpdateKids(e[4]) \cup ArrayKids(e[3])
    [] e[1] \in {"Select", "FSelect"} -> {e[3], e[4], e[5]}
    [] e[1] = "Concat" -> {e[3][i] : i \in 1..Len(e[3])}
    [] e[1] \in {"Extract", "ZExt", "SExt", "FExt", "FToU", "FToS", "UToF", "SToF",
                 "ExplicitFloat", "ExplicitInt", "FAbs", "Not", "NotOptimized",
                 "FSqrt", "FNearbyInt", "FpClassify", "FIsFinite", "FIsNan", "FIsInf"} ->
         {e[3]}
    [] OTHER -> {e[3], e[4]}

\* the unique nodes of the DAG under e, e included
RECURSIVE Nodes(_)
Nodes(e) == {e} \cup UNION {Nodes(k) : k \in ExprKids(e)}

\* canonicalised IR: no node of a kind the IR rewrites into its dual
Canonical(e) == \A n \in Nodes(e) : n[1] \notin UnhandledKinds

-----------------------------------------------------------------------------
(***************************************************************************)
(* The inputs of the model: three Array roots, an update list and a set of *)
(* query expressions over them that between them use every kind.           *)
(***************************************************************************)

MakeArray(id, name, range, values) ==
  [id |-> id, name |-> name, domain |-> 32, range |-> range, size |-> 2,
   isConstantArray |-> values # <<>>, constantValues |-> values]

ArrA == MakeArray(1, <<"a">>, 8, <<>>)
ArrC == MakeArray(2, <<"c">>, 8, <<ConstantExpr(8, 5), ConstantExpr(8, 9)>>)
ArrB == MakeArray(3, <<"b">>, 1, <<>>)

c8(n) == ConstantExpr(8, n)
idx(n) == ConstantExpr(32, n)

rdX == ReadExpr(ArrA, <<>>, idx(0))
rdY == ReadExpr(ArrA, <<>>, idx(1))
\* a read through one write: a[0] := 7 layered on the root
Upd == <<1, idx(0), c8(7), <<>>>>
rdZ == ReadExpr(ArrA, Upd, idx(1))
rdK == ReadExpr(ArrC, <<>>, idx(1))
ltXY == CmpExpr("Ult", rdX, rdY)
x32 == ConcatExpr(ConcatExpr(rdX, rdY), ConcatExpr(rdZ, rdK))
x64 == ConcatExpr(x32, x32)
f32 == SameWidthExpr("ExplicitFloat", x32)
g32 == FConstantExpr(32, <<U64(16256)>>)
f64 == SameWidthExpr("ExplicitFloat", x64)
\* an 80-bit constant with exponent 0x3fff and the integer bit set (1.0)
g80 == FConstantExpr(80, << <<0, 0, 0, 32768>>, <<16383, 0, 0, 0>> >>)
f80 == CastRoundExpr("FExt", g32, 80, "RNE")
Wide == <<"Constant", 72, <<1, 2, 3, 4, 5, 0, 0, 0>>>>

FpCompareKinds == <<"FUeq", "FOeq", "FUgt", "FOgt", "FUge", "FOge", "FUlt", "FOlt",
                    "FUle", "FOle", "FUne", "FOne", "FOrd", "FUno">>

RECURSIVE AllOf(_, _, _, _, _)
\* the conjunction, a balanced tree of And nodes, of one comparison of l and r
\* of each of the kinds i..j
AllOf(kinds, i, j, l, r) ==
  IF i = j THEN CmpExpr(kinds[i], l, r)
  ELSE LET m == (i + j) \div 2
       IN BinaryExpr("And", AllOf(kinds, i, m, l, r), AllOf(kinds, m + 1, j, l, r))

Queries ==
  { \* a constant shared by two parents
    CmpExpr("Ult", BinaryExpr("Add", rdX, c8(1)), c8(1)),
    CmpExpr("Eq", BinaryExpr("Mul", rdX, rdY),
            BinaryExpr("Sub", BinaryExpr("UDiv", rdX, c8(4)),
                       BinaryExpr("URem", rdY, c8(4)))),
    CmpExpr("Sle", BinaryExpr("SDiv", rdX, rdZ),
            BinaryExpr("SRem", BinaryExpr("UDiv", rdX, rdY),
                       BinaryExpr("URem", rdK, c8(1)))),
    BinaryExpr("And", BinaryExpr("Or", SameWidthExpr("Not", ltXY), CmpExpr("Ule", rdX, rdY)),
               BinaryExpr("Xor", CmpExpr("Slt", rdX, rdY),
                          CmpExpr("Eq", ConstantExpr(1, 1), ltXY))),
    CmpExpr("Eq", BinaryExpr("And", rdX, BinaryExpr("Or", rdY,
                    BinaryExpr("Xor", rdX, SameWidthExpr("Not", rdY)))), c8(0)),
    SelectExpr("Select", ltXY, BinaryExpr("Shl", rdX, rdY),
               BinaryExpr("AShr", BinaryExpr("LShr", rdX, c8(1)), rdY)),
    CmpExpr("Eq", BinaryExpr("Shl", BinaryExpr("LShr", rdX, rdY), c8(3)),
            BinaryExpr("AShr", rdX, c8(2))),
    BinaryExpr("And",
               CmpExpr("Eq", CastExpr("ZExt", rdX, 16),
                       CastExpr("SExt", ExtractExpr(NotOptimizedExpr(x32), 8, 8), 16)),
               CmpExpr("Eq", ExtractExpr(Wide, 60, 8),
                       BinaryExpr("Add", CastExpr("ZExt", ltXY, 8),
                                  CastExpr("SExt", ExtractExpr(rdX, 7, 1), 8)))),
    AllOf(FpCompareKinds, 1, 7, f32, g32),
    AllOf(FpCompareKinds, 8, 14, g32, f32),
    AllOf(FpCompareKinds, 1, 7, f80, g80),
    AllOf(FpCompareKinds, 8, 14, g80, f80),
    CmpExpr("FOlt", FBinaryExpr("FAdd", f32, g32, "RNE"),
            FBinaryExpr("FMul", FBinaryExpr("FSub", f32, g32, "RTZ"),
                        FBinaryExpr("FDiv", g32, f32, "RTP"), "RTN")),
    SelectExpr("FSelect", ltXY, BinaryExpr("FMin", f64, BinaryExpr("FRem", f64, f64)),
               BinaryExpr("FMax", f64, RoundExpr("FSqrt", SameWidthExpr("FAbs", f64), "RNE"))),
    CmpExpr("FOeq", FBinaryExpr("FAdd", f80, g80, "RNE"),
            BinaryExpr("FMin", RoundExpr("FNearbyInt", f80, "RNE"),
                       BinaryExpr("FRem", SameWidthExpr("FAbs", f80), g80))),
    BinaryExpr("Add", BinaryExpr("Add", ClassifyExpr("FpClassify", f32),
                                 ClassifyExpr("FIsFinite", f64)),
               BinaryExpr("Add", ClassifyExpr("FIsNan", f80), ClassifyExpr("FIsInf", f80))),
    BinaryExpr("And",
               CmpExpr("Eq", SameWidthExpr("ExplicitInt", CastRoundExpr("UToF", rdX, 32, "RNE")),
                       BinaryExpr("Add", CastRoundExpr("FToU", f32, 32, "RTZ"),
                                  CastRoundExpr("FToS", CastRoundExpr("FExt",
                                      CastRoundExpr("SToF", rdX, 64, "RNE"), 32, "RNE"),
                                    32, "RTZ"))),
               CmpExpr("Ult", CastRoundExpr("FToU", f80, 8, "RTZ"),
                       CastRoundExpr("FToS", CastRoundExpr("FExt", f80, 64, "RNE"),
                                     8, "RTZ"))),
    \* a float converted to a one-bit integer
    CastRoundExpr("FToU", f32, 1, "RTZ"),
    \* a read of a one-bit array
    ReadExpr(ArrB, <<>>, idx(0)),
    \* kinds the IR is meant to have rewritten
    CmpExpr("Ne", rdX, rdY),
    BinaryExpr("And", SameWidthExpr("Not", CmpExpr("Ugt", rdX, rdY)),
               BinaryExpr("Or", CmpExpr("Uge", rdX, rdY),
                          BinaryExpr("Or", CmpExpr("Sgt", rdX, rdY),
                                     CmpExpr("Sge", rdX, rdY)))) }

\* the values an uninitialised int may hold
JunkValues == {1, 77}

-----------------------------------------------------------------------------
(***************************************************************************)
(* The Builder as a state machine: its callers construct queries, read     *)
(* arrays, clear the construct cache and finally destroy the Builder; Z3   *)
(* calls the error handler.                                                *)
(***************************************************************************)

EmptyMap == <<>>

\* the state a call starts from
CallState(c, a, u, junk) ==
  [constructed |-> c, array_hash |-> a, update_node_hash |-> u, abort |-> FALSE,
   junk |-> junk, nconstruct |-> 0, actual |-> <<>>, hits |-> {}, ret |-> {}]

Idle == [op |-> "none"]

\* Z3Builder::Z3Builder, lines 60-72: empty caches and a fresh context
Init ==
  /\ UseConstructHashZ3 \in BOOLEAN
  /\ NDEBUG \in BOOLEAN
  /\ argsRightToLeft \in BOOLEAN
  /\ constructed = EmptyMap
  /\ array_hash = EmptyMap
  /\ update_node_hash = EmptyMap
  /\ ctx = "live"
  /\ pc = "run"
  /\ last = Idle
  /\ shadow = [constructed |-> EmptyMap, array_hash |-> EmptyMap,
               update_node_hash |-> EmptyMap, ast |-> ErrTerm, width |-> 0,
               abort |-> FALSE]
  /\ returned = {}
  /\ ncalls = 0

Build == <<UseConstructHashZ3, NDEBUG, argsRightToLeft>>

\* getInitialRead(root, index), lines 456-458
getInitialRead(root, index, st) ==
  With(getInitialArray(root, st), LAMBDA arr :
    With(Z3Handle(readExpr(arr.ast, bvConst32(32, U64(index)))), LAMBDA res :
      IF arr.st.abort THEN R(ErrTerm, root.range, arr.st)
      ELSE R(res, root.range,
             IF IsError(res) THEN [arr.st EXCEPT !.abort = TRUE] ELSE arr.st)))

\* the shadow Builder is in the state of the Builder itself
InStep ==
  /\ shadow.constructed = constructed
  /\ shadow.array_hash = array_hash
  /\ shadow.update_node_hash = update_node_hash

\* a top-level call has returned res; on the shadow Builder, sh
Complete(op, arg, res, sh) ==
  /\ constructed' = res.st.constructed
  /\ array_hash' = res.st.array_hash
  /\ update_node_hash' = res.st.update_node_hash
  /\ pc' = IF res.st.abort THEN "aborted" ELSE "run"
  /\ last' = [op |-> op, e |-> arg, ast |-> res.ast, width |-> res.width,
              abort |-> res.st.abort, actual |-> res.st.actual,
              hits |-> res.st.hits, nconstruct |-> res.st.nconstruct,
              ret |-> res.st.ret, before |-> constructed,
              again |-> op = "construct" /\ \E r \in returned : r[1] = arg]
  /\ shadow' = [constructed |-> sh.st.constructed, array_hash |-> sh.st.array_hash,
                update_node_hash |-> sh.st.update_node_hash, ast |-> sh.ast,
                width |-> sh.width, abort |-> sh.st.abort]
  /\ returned' = returned \cup res.st.ret

\* a call Run of the public interface on the Builder, and the same call on the
\* Builder that never clears its cache (the same computation while they are in step)
Call(op, arg, Run(_)) ==
  /\ pc = "run"
  /\ ncalls < MaxCalls
  /\ \E junk \in JunkValues :
       With(Run(CallState(constructed, array_hash, update_node_hash, junk)),
            LAMBDA res :
              Complete(op, arg, res,
                       IF InStep THEN res
                       ELSE Run(CallState(shadow.constructed, shadow.array_hash,
                                          shadow.update_node_hash, junk))))
  /\ ncalls' = ncalls + 1
  /\ UNCHANGED <<Build, ctx>>

\* construct(e, 0): the caller passes no width_out
Construct(e) == Call("construct", e, LAMBDA st : construct(e, st.junk, st))

GetInitialRead(root, index) ==
  Call("getInitialRead", root, LAMBDA st : getInitialRead(root, index, st))

\* clearConstructCache(): constructed.clear()
ClearConstructCache ==
  /\ pc = "run"
  /\ constructed' = EmptyMap
  /\ UNCHANGED <<Build, array_hash, update_node_hash, ctx, pc, last, shadow, returned,
                 ncalls>>

\* a clear that forgets the update nodes
Z3ArrayExprHash_clear_roots(arr_hash) == [arr_hash EXCEPT !._array_hash = EmptyMap]

\* Z3ArrayExprHash::clear, lines 55-58
Z3ArrayExprHash_clear(arr_hash) ==
  LET cleared1 == [arr_hash EXCEPT !._update_node_hash = EmptyMap]
  IN [cleared1 EXCEPT !._array_hash = EmptyMap]

\* ~Z3Builder, lines 74-80, statement by statement
Dtor_clearConstructCache ==
  /\ pc = "run"
  /\ constructed' = EmptyMap
  /\ pc' = "dtor_arr_hash_clear"
  /\ last' = [op |-> "~Z3Builder", before |-> constructed, array_hash |-> array_hash,
              update_node_hash |-> update_node_hash]
  /\ UNCHANGED <<Build, array_hash, update_node_hash, ctx, shadow, returned, ncalls>>

Dtor_arr_hash_clear ==
  /\ pc = "dtor_arr_hash_clear"
  /\ LET cleared == Z3ArrayExprHash_clear([_array_hash |-> array_hash,
                                           _update_node_hash |-> update_node_hash])
     IN /\ array_hash' = cleared._array_hash
        /\ update_node_hash' = cleared._update_node_hash
  /\ pc' = "dtor_del_context"
  /\ UNCHANGED <<Build, constructed, ctx, last, shadow, returned, ncalls>>

Dtor_Z3_del_context ==
  /\ pc = "dtor_del_context"
  /\ ctx' = "deleted"
  /\ pc' = "done"
  /\ UNCHANGED <<Build, constructed, array_hash, update_node_hash, last, shadow,
                 returned, ncalls>>

\* char strings as sequences; strcmp of <string.h> over the characters in use
Canceled == <<"c", "a", "n", "c", "e", "l", "e", "d">>
Alphabet == <<" ", "!", "C", "a", "c", "d", "e", "i", "l", "n", "r", "v">>
CharCode(ch) == CHOOSE i \in 1..Len(Alphabet) : Alphabet[i] = ch

RECURSIVE strcmp(_, _)
strcmp(s1, s2) ==
  IF s1 = <<>> /\ s2 = <<>> THEN 0
  ELSE IF s1 = <<>> THEN -1
  ELSE IF s2 = <<>> THEN 1
  ELSE IF Head(s1) = Head(s2) THEN strcmp(Tail(s1), Tail(s2))
  ELSE CharCode(Head(s1)) - CharCode(Head(s2))

\* messages Z3_get_error_msg may hand over
Messages ==
  { Canceled,
    <<"c", "a", "n", "c", "e", "l">>,
    <<"c", "a", "n", "c", "e", "l", "e", "d", "!">>,
    <<"i", "n", "v", "a", "l", "i", "d">> }

\* a comparison of the first characters only, as strncmp would make
custom_z3_error_handler_prefix(errorMsg) ==
  IF strcmp(substr0(errorMsg, Len(Canceled)), Canceled) = 0 THEN "return" ELSE "abort"

\* custom_z3_error_handler, lines 33-51: return on "canceled", abort() otherwise
custom_z3_error_handler(errorMsg) ==
  IF strcmp(errorMsg, Canceled) = 0 THEN "return" ELSE "abort"

\* Z3 reports an error while the Builder is in use
ErrorHandler(errorMsg) ==
  /\ pc = "run"
  /\ LET outcome == custom_z3_error_handler(errorMsg)
     IN /\ pc' = IF outcome = "return" THEN pc ELSE "aborted"
        /\ last' = [op |-> "custom_z3_error_handler", errorMsg |-> errorMsg,
                    outcome |-> outcome, before |-> constructed,
                    array_hash |-> array_hash, update_node_hash |-> update_node_hash]
  /\ UNCHANGED <<Build, constructed, array_hash, update_node_hash, ctx, shadow,
                 returned, ncalls>>

Arrays == {ArrA, ArrB, ArrC}
ReadIndexes == {1}

\* the translator in use: queries are constructed, arrays are read, the construct
\* cache is cleared between calls
Next ==
  \/ \E e \in Queries : Construct(e)
  \/ \E root \in Arrays : \E index \in ReadIndexes : GetInitialRead(root, index)
  \/ ClearConstructCache

Spec == Init /\ [][Next]_vars

\* the life of a Builder: it translates, Z3 reports errors, it is destroyed
LifeQueries == {ltXY, CmpExpr("Eq", rdZ, rdK)}

NextLife ==
  \/ \E e \in LifeQueries : Construct(e)
  \/ Dtor_clearConstructCache
  \/ Dtor_arr_hash_clear
  \/ Dtor_Z3_del_context
  \/ \E errorMsg \in Messages : ErrorHandler(errorMsg)

SpecLife == Init /\ [][NextLife]_vars

\* a name of 33 characters
LongName == <<"x", "x", "x", "x", "x", "x", "x", "x", "x", "x",
              "x", "x", "x", "x", "x", "x", "x", "x", "x", "x",
              "x", "x", "x", "x", "x", "x", "x", "x", "x", "x", "1", "y", "y">>

\* the names of roots: short, ending in a digit, longer than 32 characters
RootNames == {<<"a">>, <<"a", "1">>}

\* the roots a caller may hold: the i-th root it declares, under any of the
\* names, the first MaxLongNames of them under the long name as well
NameRoots ==
  {MakeArray(i, name, 8, <<>>) : i \in 1..MaxArrays, name \in RootNames}
    \cup {MakeArray(i, LongName, 8, <<>>) : i \in 1..MaxLongNames}

\* getInitialArray(root), lines 419-454, on a root that is in the array cache or
\* on the next root
GetInitialArray(root) ==
  /\ pc = "run"
  /\ root \in DOMAIN array_hash \/ root.id = Cardinality(DOMAIN array_hash) + 1
  /\ \E junk \in JunkValues :
       With(getInitialArray(root, CallState(constructed, array_hash, update_node_hash,
                                            junk)),
            LAMBDA res :
              /\ constructed' = res.st.constructed
              /\ array_hash' = res.st.array_hash
              /\ update_node_hash' = res.st.update_node_hash
              /\ pc' = IF res.st.abort THEN "aborted" ELSE "run")
  /\ UNCHANGED <<Build, ctx, last, shadow, returned, ncalls>>

\* a Builder of the default build whose caller declares arrays
InitNames == Init /\ UseConstructHashZ3 /\ ~NDEBUG /\ ~argsRightToLeft

NextNames == \E root \in NameRoots : GetInitialArray(root)

SpecNames == InitNames /\ [][NextNames]_vars

-----------------------------------------------------------------------------
(***************************************************************************)
(* The translator on single operations: the queries whose translation is   *)
(* compared with the operation they stand for.                             *)
(***************************************************************************)

\* a constant array of three cells
ArrD == [MakeArray(4, <<"d">>, 8, <<ConstantExpr(8, 7), ConstantExpr(8, 8),
                                    ConstantExpr(8, 9)>>) EXCEPT !.size = 3]

\* the low and the high half of the byte rdX, and two bits of it
loX == ExtractExpr(rdX, 0, 4)
hiX == ExtractExpr(rdX, 4, 4)
lo2X == ExtractExpr(rdX, 0, 2)
hi2X == ExtractExpr(rdX, 2, 2)
x16 == ConcatExpr(rdX, rdY)
leXY == CmpExpr("Ule", rdX, rdY)

\* 64-bit constants: 2^32 and 2^32 + 70
Two32 == <<"Constant", 64, <<0, 0, 1, 0>>>>
Two32Plus70 == <<"Constant", 64, <<70, 0, 1, 0>>>>

ShiftKinds == {"Shl", "LShr", "AShr"}

\* reads of the constant arrays at a constant and at a symbolic index
ArrayQueries ==
  {ReadExpr(root, <<>>, index) :
     root \in {ArrC, ArrD}, index \in {idx(0), idx(1), CastExpr("ZExt", rdX, 32)}}

\* divisions and remainders by constants
DivQueries ==
  {BinaryExpr(kind, rdX, c8(d)) :
     kind \in {"UDiv", "URem"}, d \in {1, 2, 4, 8, 16, 32, 64, 128, 6}}
    \cup {BinaryExpr(kind, x16, ConstantExpr(16, 4096)) : kind \in {"UDiv", "URem"}}

\* shifts by constants, the round trip of the two logical shifts, and shifts by
\* a variable amount
ShiftQueries ==
  {BinaryExpr(kind, rdX, c8(k)) : kind \in ShiftKinds, k \in {0, 3, 7, 8, 9, 255}}
    \cup {BinaryExpr(kind, x64, k) : kind \in ShiftKinds, k \in {Two32, Two32Plus70}}
    \cup {BinaryExpr("LShr", BinaryExpr("Shl", rdX, c8(k)), c8(k)) : k \in 0..8}
    \cup {BinaryExpr(kind, loX, hiX) : kind \in {"Shl", "LShr"}}
    \cup {BinaryExpr(kind, lo2X, hi2X) : kind \in {"Shl", "LShr"}}
    \cup {BinaryExpr(kind, rdX, rdY) : kind \in {"Shl", "LShr"}}

\* equalities of one-bit operands
EqQueries ==
  {CmpExpr("Eq", ConstantExpr(1, 1), ltXY), CmpExpr("Eq", ConstantExpr(1, 0), ltXY),
   CmpExpr("Eq", ltXY, ConstantExpr(1, 1)), CmpExpr("Eq", ltXY, ConstantExpr(1, 0)),
   CmpExpr("Eq", ltXY, leXY), CmpExpr("Eq", rdX, rdY)}

OpQueries == ArrayQueries \cup DivQueries \cup ShiftQueries \cup EqQueries

\* 80-bit floats: the constant whose exponent is 0x3fff and whose integer bit is
\* clear, and the floats of the bits sign 0, exponent E, then the byte rdX and
\* 56 constant bits, so that bit 7 of rdX is the integer bit
u80 == FConstantExpr(80, << <<0, 0, 0, 0>>, <<16383, 0, 0, 0>> >>)
bits80(E) ==
  ConcatExpr(ConstantExpr(16, E), ConcatExpr(rdX, <<"Constant", 56, <<1, 0, 0, 0>>>>))
e80(E) == SameWidthExpr("ExplicitFloat", bits80(E))
\* the float of constant bits with exponent 0x3fff and the integer bit clear
k80 == SameWidthExpr("ExplicitFloat", <<"Constant", 80, <<0, 0, 0, 0, 16383, 0, 0, 0>>>>)

\* 80-bit patterns, the low limb first: 1.0, 1.5, -1.0 with low mantissa bits,
\* 1.0 with mantissa bit 32, zero, exponent 0x3fff without the integer bit, and
\* exponent 0 with the integer bit
Patterns ==
  {<<0, 0, 0, 32768, 16383, 0, 0, 0>>, <<0, 0, 0, 49152, 16383, 0, 0, 0>>,
   <<1, 2, 0, 32768, 49151, 0, 0, 0>>, <<0, 0, 1, 32768, 16383, 0, 0, 0>>,
   <<0, 0, 0, 0, 0, 0, 0, 0>>, <<0, 0, 0, 0, 16383, 0, 0, 0>>,
   <<5, 0, 0, 32768, 0, 0, 0, 0>>}
PatternFConstant(b) == FConstantExpr(80, <<SubSeq(b, 1, 4), SubSeq(b, 5, 8)>>)
PatternExplicitFloat(b) == SameWidthExpr("ExplicitFloat", <<"Constant", 80, b>>)

FpArithKinds == {"FAdd", "FSub", "FMul", "FDiv", "FRem"}
OrderedKinds == {"FOeq", "FOgt", "FOge", "FOlt", "FOle"}
UnorderedKinds == {"FUeq", "FUgt", "FUge", "FUlt", "FUle"}
NotEqualKinds == {"FUne", "FOne"}

FpPairs ==
  {<<g80, g80>>, <<u80, g80>>, <<g80, u80>>, <<e80(16383), g80>>, <<g80, e80(0)>>,
   <<k80, f80>>}

\* pairs for FMin and FMax: also both operands unnormal, by different terms
MinMaxPairs == FpPairs \cup {<<u80, k80>>, <<e80(16383), u80>>}
F80Operands == {g80, u80, e80(16383), k80, f80}

FpQueries ==
  {FBinaryExpr(kind, p[1], p[2], "RNE") : kind \in FpArithKinds \ {"FRem"}, p \in FpPairs}
    \cup {BinaryExpr("FRem", p[1], p[2]) : p \in FpPairs}
    \cup {CmpExpr(kind, p[1], p[2]) :
            kind \in OrderedKinds \cup UnorderedKinds \cup NotEqualKinds, p \in FpPairs}
    \cup {CastRoundExpr(kind, src, t, "RTZ") :
            kind \in {"FToU", "FToS"}, src \in {g80, u80, e80(16383)}, t \in {8, 32, 64}}
    \cup {SameWidthExpr("ExplicitInt", src) : src \in {g80, u80, e80(16383), f32}}
    \cup {CastRoundExpr("FExt", g32, t, rm) : t \in {64, 80}, rm \in {"RNE", "RTZ"}}
    \cup {PatternFConstant(b) : b \in Patterns}
    \cup {BinaryExpr(kind, p[1], p[2]) : kind \in {"FMin", "FMax"}, p \in MinMaxPairs}
    \cup {SameWidthExpr("FAbs", src) : src \in F80Operands}
    \cup {RoundExpr(kind, src, "RNE") : kind \in {"FSqrt", "FNearbyInt"}, src \in F80Operands}
    \cup {SelectExpr(kind, CmpExpr("Ult", rdX, c8(128)), p[1], p[2]) :
            kind \in {"Select", "FSelect"}, p \in FpPairs}
    \cup {SameWidthExpr("FAbs", SelectExpr("FSelect", CmpExpr("Ult", rdX, c8(128)),
                                           BinaryExpr("FMin", u80, g80),
                                           RoundExpr("FSqrt", e80(16383), "RNE")))}
    \cup {PatternExplicitFloat(b) : b \in Patterns}
    \cup {CastRoundExpr(kind, x16, t, rm) :
            kind \in {"UToF", "SToF"}, t \in {32, 64, 80}, rm \in {"RNE", "RTZ"}}

\* each behaviour translates MaxFpCalls of the queries on a fresh Builder
NextFp == ncalls < MaxFpCalls /\ \E e \in FpQueries : Construct(e)

SpecFp == Init /\ [][NextFp]_vars

\* a chain of three writes to the array a, the oldest last: a[1] := 5, a[0] := 7
\* and, at a symbolic index, a[a[0]] := 9
U1 == <<11, idx(1), c8(5), <<>>>>
U2 == <<12, idx(0), c8(7), U1>>
U3 == <<13, CastExpr("ZExt", rdX, 32), c8(9), U2>>

\* reads through the suffixes of the chain
ChainQueries ==
  {ReadExpr(ArrA, head, index) : head \in {U1, U2, U3}, index \in {idx(0), idx(1)}}

\* arithmetic shifts by a variable amount, of 4, 2 and 8 bits
AShrQueries ==
  {BinaryExpr("AShr", loX, hiX), BinaryExpr("AShr", lo2X, hi2X),
   BinaryExpr("AShr", rdX, rdY), BinaryExpr("AShr", hiX, loX)}

\* integer constants of 1, 8, 33, 64, 65, 72, 128, 130 and 192 bits
ConstantQueries ==
  {<<"Constant", 1, <<1, 0, 0, 0>>>>, <<"Constant", 1, <<0, 0, 0, 0>>>>,
   <<"Constant", 8, <<200, 0, 0, 0>>>>, <<"Constant", 33, <<7, 9, 1, 0>>>>,
   <<"Constant", 64, <<1, 2, 3, 32768>>>>,
   <<"Constant", 65, <<1, 2, 3, 4, 1, 0, 0, 0>>>>,
   <<"Constant", 65, <<1, 2, 3, 4, 0, 0, 0, 0>>>>,
   <<"Constant", 72, <<1, 2, 3, 4, 5, 0, 0, 0>>>>,
   <<"Constant", 128, <<1, 2, 3, 4, 5, 6, 7, 32768>>>>,
   <<"Constant", 130, <<1, 2, 3, 4, 5, 6, 7, 8, 3, 0, 0, 0>>>>,
   <<"Constant", 192, <<1, 2, 3, 4, 5, 6, 7, 8, 9, 10, 11, 12>>>>}

MoreQueries == ChainQueries \cup AShrQueries \cup ConstantQueries

NextMore == \E e \in MoreQueries : Construct(e)

SpecMore == Init /\ [][NextMore]_vars

NextOps == \E e \in OpQueries : Construct(e)

SpecOps == Init /\ [][NextOps]_vars

-----------------------------------------------------------------------------
(***************************************************************************)
(* The value of a term in a model of the solver.  A model M gives every    *)
(* array constant its content, by the first character of its name (the     *)
(* name of its root): M[c] is the sequence of the cells 0, 1, ..           *)
(* A bitvector is the number it encodes, a Boolean is TRUE or FALSE.       *)
(* Only terms of at most 30 bits are evaluated; bits are extracted from    *)
(* wider numerals and concatenations without evaluating them.  A floating- *)
(* point term is NaN, zero or some other number; M.isnan says whether a    *)
(* number that is not known is NaN and M.native what a comparison of the   *)
(* solver yields on numbers.                                               *)
(***************************************************************************)

\* the number a numeral's word encodes
WordValue(v) == v[1] + 65536 * v[2]

\* the width of a bitvector term that carries its sort
WidthOf(t) == t[5][2]

\* the bits hi .. lo of a numeral's word
Bit(v, i) == (v[(i \div 16) + 1] \div (2 ^ (i % 16))) % 2
RECURSIVE WordBits(_, _, _)
WordBits(v, hi, lo) == IF hi < lo THEN 0 ELSE Bit(v, lo) + 2 * WordBits(v, hi, lo + 1)

FpNaN == <<"fp.nan">>
FpZero == <<"fp.zero">>
FpOther == <<"fp.other">>
FpCompareOps == {"fp.eq", "fp.gt", "fp.geq", "fp.lt", "fp.leq"}

RECURSIVE Z3_eval(_, _), Z3_select(_, _, _), Z3_bits(_, _, _, _)

\* the bits hi .. lo of the bitvector term t in the model M
Z3_bits(t, hi, lo, M) ==
  CASE t[1] = "bv" -> WordBits(t[3], hi, lo)
    [] t[1] = "concat" ->
         With(WidthOf(t[4][2]), LAMBDA w :
           IF lo >= w THEN Z3_bits(t[4][1], hi - w, lo - w, M)
           ELSE IF hi < w THEN Z3_bits(t[4][2], hi, lo, M)
           ELSE Z3_bits(t[4][1], hi - w, 0, M) * (2 ^ (w - lo))
                  + Z3_bits(t[4][2], w - 1, lo, M))
    [] t[1] = "extract" -> Z3_bits(t[4][1], hi + t[3][2], lo + t[3][2], M)
    [] OTHER -> (Z3_eval(t, M) \div (2 ^ lo)) % (2 ^ (hi - lo + 1))

\* the cell j of the array term arr in the model M
Z3_select(arr, j, M) ==
  CASE arr[1] = "const" ->
         IF j + 1 \in DOMAIN M[arr[3][1]] THEN M[arr[3][1]][j + 1] ELSE 0
    [] arr[1] = "store" ->
         IF Z3_eval(arr[4][2], M) = j THEN Z3_eval(arr[4][3], M)
         ELSE Z3_select(arr[4][1], j, M)
    [] arr[1] = "ite" ->
         IF Z3_eval(arr[4][1], M) THEN Z3_select(arr[4][2], j, M)
         ELSE Z3_select(arr[4][3], j, M)

\* the value of the Boolean or bitvector term t in the model M
Z3_eval(t, M) ==
  CASE t[1] = "true" -> TRUE
    [] t[1] = "false" -> FALSE
    [] t[1] = "bv" -> WordValue(t[3])
    [] t[1] = "not" -> ~Z3_eval(t[4][1], M)
    [] t[1] = "and" -> \A i \in 1..Len(t[4]) : Z3_eval(t[4][i], M)
    [] t[1] = "or" -> \E i \in 1..Len(t[4]) : Z3_eval(t[4][i], M)
    [] t[1] \in {"iff", "="} -> Z3_eval(t[4][1], M) = Z3_eval(t[4][2], M)
    [] t[1] = "ite" ->
         IF Z3_eval(t[4][1], M) THEN Z3_eval(t[4][2], M) ELSE Z3_eval(t[4][3], M)
    [] t[1] = "concat" ->
         Z3_eval(t[4][1], M) * (2 ^ WidthOf(t[4][2])) + Z3_eval(t[4][2], M)
    [] t[1] = "extract" -> Z3_bits(t[4][1], t[3][1], t[3][2], M)
    [] t[1] = "bvredor" -> IF Z3_eval(t[4][1], M) = 0 THEN 0 ELSE 1
    [] t[1] = "fp.nan" -> FpNaN
    [] t[1] = "fp.zero" -> FpZero
    [] t[1] = "fp.isNaN" ->
         With(Z3_eval(t[4][1], M), LAMBDA v :
           IF v = FpNaN THEN TRUE ELSE IF v = FpZero THEN FALSE ELSE M["isnan"])
    [] t[1] \in FpCompareOps -> M["native"]
    [] t[1] = "bvult" -> Z3_eval(t[4][1], M) < Z3_eval(t[4][2], M)
    [] t[1] = "bvule" -> Z3_eval(t[4][1], M) <= Z3_eval(t[4][2], M)
    [] t[1] = "bvadd" -> (Z3_eval(t[4][1], M) + Z3_eval(t[4][2], M)) % (2 ^ WidthOf(t))
    [] t[1] = "bvudiv" ->
         IF Z3_eval(t[4][2], M) = 0 THEN (2 ^ WidthOf(t)) - 1
         ELSE Z3_eval(t[4][1], M) \div Z3_eval(t[4][2], M)
    [] t[1] = "bvurem" ->
         IF Z3_eval(t[4][2], M) = 0 THEN Z3_eval(t[4][1], M)
         ELSE Z3_eval(t[4][1], M) % Z3_eval(t[4][2], M)
    [] t[1] = "select" -> Z3_select(t[4][1], Z3_eval(t[4][2], M), M)
    [] OTHER -> FpOther

RECURSIVE Uses(_, _)
\* the term t holds an application of op
Uses(t, op) == t[1] = op \/ \E i \in 1..Len(t[4]) : Uses(t[4][i], op)

\* the values of a byte, and the models of the solver: the cells of the symbolic
\* array a, and what the fresh constants of the constant arrays hold
Bytes == 0..(2 ^ 8 - 1)
Garbage == {0, 2 ^ 8 - 1}
ModelOf(x, y, g) == ("a" :> <<x, y>>) @@ ("c" :> <<g, g>>) @@ ("d" :> <<g, g, g>>)
Models == {ModelOf(x, y, 0) : x \in Bytes, y \in {0, 3, 2 ^ 8 - 1}}

\* the models of the floating-point queries: the byte a[0], whether a number that
\* is not known is NaN, and what a comparison of the solver yields
FpModel(x, isnan, native) ==
  ModelOf(x, 0, 0) @@ ("isnan" :> isnan) @@ ("native" :> native)
FpModels ==
  {FpModel(x, isnan, native) :
     x \in {0, 2 ^ 7 - 1, 2 ^ 7, 2 ^ 8 - 1}, isnan \in BOOLEAN, native \in BOOLEAN}

\* the value of an integer expression of the IR in a model: constants, reads of
\* the symbolic array at a constant index, Concat, Extract and ZExt; and its
\* bits hi .. lo, taken without evaluating a wide expression
RECURSIVE Expr_eval(_, _), Expr_bits(_, _, _, _), ReadThrough(_, _, _, _)
Expr_bits(e, hi, lo, M) ==
  CASE e[1] = "Constant" -> WordBits(e[3], hi, lo)
    [] e[1] = "Concat" ->
         With(getWidth(e[3][2]), LAMBDA w :
           IF lo >= w THEN Expr_bits(e[3][1], hi - w, lo - w, M)
           ELSE IF hi < w THEN Expr_bits(e[3][2], hi, lo, M)
           ELSE Expr_bits(e[3][1], hi - w, 0, M) * (2 ^ (w - lo))
                  + Expr_bits(e[3][2], w - 1, lo, M))
    [] OTHER -> (Expr_eval(e, M) \div (2 ^ lo)) % (2 ^ (hi - lo + 1))

\* the cell j of the array root under the writes of the update list un, the most
\* recent write first
ReadThrough(root, un, j, M) ==
  IF un = <<>>
  THEN IF j + 1 \in DOMAIN M[root.name[1]] THEN M[root.name[1]][j + 1] ELSE 0
  ELSE IF Expr_eval(un[2], M) = j THEN Expr_eval(un[3], M)
  ELSE ReadThrough(root, un[4], j, M)

\* an 80-bit float of the IR is unnormal in a model: its integer bit is not the
\* one its exponent implies (set exactly when the exponent is not zero)
Unnormal(e, M) ==
  CASE e[1] = "FConstant" -> (e[3][2][1] % 32768 = 0) # (e[3][1][4] \div 32768 = 0)
    [] e[1] = "ExplicitFloat" ->
         (Expr_bits(e[3], 78, 64, M) = 0) # (Expr_bits(e[3], 63, 63, M) = 0)
    [] OTHER -> FALSE

Expr_eval(e, M) ==
  CASE e[1] = "Constant" -> WordValue(e[3])
    [] e[1] = "Read" -> ReadThrough(e[3], e[4], Expr_eval(e[5], M), M)
    [] e[1] = "Concat" -> Expr_eval(e[3][1], M) * 2 ^ getWidth(e[3][2]) + Expr_eval(e[3][2], M)
    [] e[1] = "Extract" -> Expr_bits(e[3], e[4] + e[2] - 1, e[4], M)
    [] e[1] = "ZExt" -> Expr_eval(e[3], M)
    [] e[1] = "Shl" -> IF Expr_eval(e[4], M) >= e[2] THEN 0
                       ELSE (Expr_eval(e[3], M) * 2 ^ Expr_eval(e[4], M)) % 2 ^ e[2]
    [] e[1] = "LShr" -> IF Expr_eval(e[4], M) >= e[2] THEN 0
                        ELSE Expr_eval(e[3], M) \div 2 ^ Expr_eval(e[4], M)
    [] e[1] = "AShr" ->
         LET x == Expr_eval(e[3], M)
             sh == Expr_eval(e[4], M)
         IN IF sh >= e[2] THEN 0
            ELSE (x \div 2 ^ sh)
                   + (IF x >= 2 ^ (e[2] - 1) THEN (2 ^ sh - 1) * 2 ^ (e[2] - sh) ELSE 0)
    [] e[1] = "UDiv" -> Expr_eval(e[3], M) \div Expr_eval(e[4], M)
    [] e[1] = "URem" -> Expr_eval(e[3], M) % Expr_eval(e[4], M)

\* the indexes written by the stores of an array term, innermost first, and
\* the term under the stores
RECURSIVE StoreIndexes(_), StoreBase(_)
StoreIndexes(t) ==
  IF t[1] = "store" THEN Append(StoreIndexes(t[4][1]), WordValue(t[4][2][3])) ELSE <<>>
StoreBase(t) == IF t[1] = "store" THEN StoreBase(t[4][1]) ELSE t

-----------------------------------------------------------------------------
(***************************************************************************)
(* The properties.  The IR is canonical: it holds no Ne, Ugt, Uge, Sgt or  *)
(* Sge node (the IR rewrites them into their duals when it builds a node); *)
(* C9 is about the nodes that break this.                                  *)
(***************************************************************************)

\* the kinds whose value is a float
FloatKinds == {"FConstant", "FSelect", "FExt", "UToF", "SToF", "ExplicitFloat", "FAbs",
               "FSqrt", "FNearbyInt", "FAdd", "FSub", "FMul", "FDiv", "FRem", "FMin",
               "FMax"}

IntegerValued(e) == e[1] \notin FloatKinds

\* C1: every construct call that returns, on a cache miss or on a cache hit, at
\* the top or inside another translation, reports the width e.getWidth() of its
\* node e
C1_WidthOut ==
  \A r \in returned : Canonical(r[1]) => r[3] = getWidth(r[1])

\* a call has returned for a node it found in the cache and for a node it translated
C1_Witness ==
  /\ last.op = "construct" /\ ~last.abort /\ Canonical(last.e)
  /\ \E r \in last.ret : r[1] \in last.hits /\ getWidth(r[1]) = 1
  /\ \E r \in last.ret : r[1] \notin last.hits /\ getWidth(r[1]) > 1

\* C2: whatever calls were made in between, with hash-consing on or off, all
\* construct calls of one Builder on a node e return the same term and width
C2_Idempotent ==
  \A x, y \in returned : (x[1] = y[1] /\ x # y) => ~Canonical(x[1])

\* a node that an earlier call returned was translated again, not read from the cache
C2_Witness ==
  /\ last.op = "construct" /\ last.again /\ ~last.abort /\ Canonical(last.e)
  /\ last.e \notin last.hits
  /\ array_hash # EmptyMap

\* C3: with hash-consing on and an empty construct cache, one top-level construct
\* call invokes constructActual at most as often as its DAG has unique nodes
C3_AtMostU ==
  (UseConstructHashZ3 /\ last.op = "construct" /\ last.before = EmptyMap /\ ~last.abort)
    => Len(last.actual) <= Cardinality(Nodes(last.e))

\* C3 as amended: with hash-consing on, one top-level construct call invokes
\* constructActual at most once on each node that is not a constant
C3_NonConstantOnce ==
  (UseConstructHashZ3 /\ last.op = "construct")
    => \A i, j \in 1..Len(last.actual) :
         (i # j /\ last.actual[i] = last.actual[j]) => isa_ConstantExpr(last.actual[i])

\* a call on a DAG with shared nodes made more invocations than the DAG has nodes
C3_Witness ==
  /\ UseConstructHashZ3 /\ last.op = "construct" /\ last.before = EmptyMap
  /\ ~last.abort /\ Canonical(last.e)
  /\ last.hits # {}
  /\ Len(last.actual) > Cardinality(Nodes(last.e))

\* C4: for an integer-valued node, a reported width of 1 comes with a term of
\* Boolean sort and a reported width w other than 1 with a bitvector of w bits
C4_WidthSort ==
  \A r \in returned :
    (Canonical(r[1]) /\ IntegerValued(r[1]))
      => Z3_get_sort(r[2]) = (IF r[3] = 1 THEN BoolSort ELSE getBvSort(r[3]))

\* C5: with the option off, the construct cache stays empty, no call reads it
\* and every construct call reaches constructActual
C5_BypassCache ==
  ~UseConstructHashZ3
    => /\ constructed = EmptyMap
       /\ last.op \in {"construct", "getInitialRead"}
            => last.hits = {} /\ last.nconstruct = Len(last.actual)

\* with the option off, a node an earlier call returned was translated again, its
\* shared nodes more than once
C5_Witness ==
  /\ ~UseConstructHashZ3 /\ last.op = "construct" /\ last.again /\ ~last.abort
  /\ Len(last.actual) > Cardinality(Nodes(last.e))

\* the array maps of the Builder are those of the Builder that never clears
SameArrays ==
  /\ shadow.array_hash = array_hash
  /\ shadow.update_node_hash = update_node_hash

\* C6: a step that clears the construct cache leaves both array maps as they
\* are, and every later call returns the term and the width, and leaves the array
\* maps, that the same calls without any clearing give
C6_ClearEquivalent ==
  /\ [][(constructed' = EmptyMap /\ ncalls' = ncalls)
          => (array_hash' = array_hash /\ update_node_hash' = update_node_hash)]_vars
  /\ []((last.op = "getInitialRead" \/ (last.op = "construct" /\ Canonical(last.e)))
          => /\ last.abort = shadow.abort
             /\ ~last.abort => /\ last.ast = shadow.ast
                               /\ last.width = shadow.width
                               /\ SameArrays)

\* a call has returned after a clear, while the Builder that never clears holds a
\* different construct cache
C6_Witness ==
  /\ last.op = "construct" /\ ~last.abort /\ last.again /\ Canonical(last.e)
  /\ UseConstructHashZ3
  /\ last.before = EmptyMap
  /\ shadow.constructed # constructed
  /\ update_node_hash # EmptyMap

\* C7: when the context is about to be deleted, and once it is deleted, the
\* construct cache and both array maps are empty
C7_ClearedBeforeContext ==
  (pc = "dtor_del_context" \/ ctx = "deleted")
    => /\ constructed = EmptyMap
       /\ array_hash = EmptyMap
       /\ update_node_hash = EmptyMap

\* the context is deleted of a Builder that held entries in all three maps
C7_Witness ==
  /\ ctx = "deleted" /\ last.op = "~Z3Builder"
  /\ last.before # EmptyMap
  /\ last.array_hash # EmptyMap
  /\ last.update_node_hash # EmptyMap

\* C8: the error handler returns exactly when the message is "canceled", and
\* then the Builder runs on with its caches as they were; on any other message
\* the process is terminated
C8_CanceledOnly ==
  last.op = "custom_z3_error_handler"
    => /\ last.outcome = "return" <=> last.errorMsg = Canceled
       /\ last.outcome = "return"
            => /\ pc = "run"
               /\ constructed = last.before
               /\ array_hash = last.array_hash
               /\ update_node_hash = last.update_node_hash
       /\ last.outcome # "return" => pc = "aborted"

\* the handler has returned to a Builder that holds cached terms
C8_Witness ==
  /\ last.op = "custom_z3_error_handler" /\ last.outcome = "return"
  /\ constructed # EmptyMap /\ update_node_hash # EmptyMap

\* C9: no construct call returns for a node of kind Ne, Ugt, Uge, Sgt or Sge, and
\* the construct cache holds no entry for such a node
C9_UnhandledFails ==
  /\ \A r \in returned : r[1][1] \notin UnhandledKinds
  /\ \A e \in DOMAIN constructed : e[1] \notin UnhandledKinds

RECURSIVE Z3_get_symbol(_)
\* the name of the array constant that a term of the array cache is built on
Z3_get_symbol(t) == IF t[1] = "const" THEN t[3] ELSE Z3_get_symbol(t[4][1])

\* C10: two distinct roots of the array cache are declared under different names
C10_DistinctNames ==
  \A r1, r2 \in DOMAIN array_hash :
    r1 # r2 => Z3_get_symbol(array_hash[r1]) # Z3_get_symbol(array_hash[r2])

\* the value of cell i of a constant array
CellValue(root, i) == WordValue(root.constantValues[i + 1][3])

\* C11: the term cached for a constant array is the fresh array constant under
\* one store per cell, in the order of the cells; in every model a select at a
\* cell yields the constant value of the cell, and a Read at an index within the
\* array yields one of the constant values
C11_ConstantArray ==
  /\ \A root \in DOMAIN array_hash :
       root.isConstantArray =>
         /\ StoreBase(array_hash[root])[1] = "const"
         /\ StoreIndexes(array_hash[root]) = [i \in 1..root.size |-> i - 1]
         /\ \A g \in Garbage : \A i \in 0..(root.size - 1) :
              Z3_select(array_hash[root], i, ModelOf(0, 0, g)) = CellValue(root, i)
  /\ (last.op = "construct" /\ ~last.abort /\ last.e[1] = "Read"
        /\ last.e[3].isConstantArray)
       => \A x \in Bytes, g \in Garbage :
            Z3_eval(last.ast[4][2], ModelOf(x, 0, g)) < last.e[3].size
              => Z3_eval(last.ast, ModelOf(x, 0, g))
                   \in {CellValue(last.e[3], i) : i \in 0..(last.e[3].size - 1)}

\* a constant array of three cells is cached and was read at a symbolic index
C11_Witness ==
  /\ ArrD \in DOMAIN array_hash
  /\ last.op = "construct" /\ ~last.abort /\ last.e[1] = "Read" /\ last.e[3] = ArrD
  /\ last.e[5][1] # "Constant"
  /\ \E x \in Bytes : Z3_eval(last.ast, ModelOf(x, 0, 0)) = 9

\* the last call was construct on a node of this kind, and it returned
Built(kinds) == last.op = "construct" /\ ~last.abort /\ last.e[1] \in kinds

\* the translation of the left operand of the node of the last call
LeftAst == (CHOOSE r \in returned : r[1] = last.e[3])[2]

\* the right operand of the node of the last call is the constant 2^k
IsPow2(k) == last.e[4][1] = "Constant" /\ last.e[4][3] = BitWord(k)
Log2 == CHOOSE k \in 0..63 : IsPow2(k)

\* C12: UDiv by the constant 2^k emits no bvudiv and its value is the left
\* operand shifted right by k, the left operand's term itself when k = 0
C12_UDivPow2 ==
  (Built({"UDiv"}) /\ \E k \in 0..63 : IsPow2(k))
    => /\ ~Uses(last.ast, "bvudiv")
       /\ Log2 = 0 => last.ast = LeftAst
       /\ \A M \in Models :
            Z3_eval(last.ast, M) = Expr_eval(last.e[3], M) \div 2 ^ Log2

\* a UDiv by 2^12 of a 16-bit operand whose quotient is not zero in some model,
\* and a UDiv by one
C12_Witness ==
  \/ /\ Built({"UDiv"}) /\ IsPow2(12)
     /\ \E M \in Models : Z3_eval(last.ast, M) = 15
  \/ /\ Built({"UDiv"}) /\ IsPow2(0) /\ last.ast = LeftAst /\ last.again

\* C13: URem by the constant 2^k emits no bvurem, has the width of its operands
\* and the value of the left operand modulo 2^k; it is bv0 when k = 0 and the
\* low k bits of the left operand under w - k zero bits otherwise
C13_URemPow2 ==
  (Built({"URem"}) /\ \E k \in 0..63 : IsPow2(k))
    => /\ ~Uses(last.ast, "bvurem")
       /\ last.width = getWidth(last.e)
       /\ Z3_get_sort(last.ast) = getBvSort(getWidth(last.e))
       /\ last.ast = Z3Handle(IF Log2 = 0 THEN bvZero(getWidth(last.e))
                              ELSE concatExpr(bvZero(getWidth(last.e) - Log2),
                                              bvExtract(LeftAst, Log2 - 1, 0)))
       /\ \A M \in Models :
            Z3_eval(last.ast, M) = Expr_eval(last.e[3], M) % 2 ^ Log2

\* a URem by 2^5 of a byte whose remainder is 31 in some model
C13_Witness ==
  /\ Built({"URem"}) /\ IsPow2(5)
  /\ \E M \in Models : Z3_eval(last.ast, M) = 31 /\ Expr_eval(last.e[3], M) > 31

\* a 64-bit word is at least n, for n below 2^16
WordAtLeast(v, n) == v[2] # 0 \/ v[3] # 0 \/ v[4] # 0 \/ v[1] >= n

\* C14: a shift of width w by a constant k, whatever value of the constant's
\* width k is, is bv0 of width w when k >= w and the left operand's term when
\* k = 0
C14_ConstantShift ==
  (Built(ShiftKinds) /\ last.e[4][1] = "Constant")
    => /\ WordAtLeast(last.e[4][3], getWidth(last.e))
            => last.ast = Z3Handle(bvZero(getWidth(last.e)))
       /\ last.e[4][3] = U64(0) => last.ast = LeftAst

\* C15: Shl and LShr by a non-constant amount s of the width w of x are a chain
\* of ites, with no shift operator of the solver, whose value in every model is
\* x shifted by s when s < w and zero when s >= w
C15_VariableShift ==
  (Built({"Shl", "LShr"}) /\ last.e[4][1] # "Constant")
    => /\ last.ast[1] = "ite"
       /\ ~Uses(last.ast, "bvshl") /\ ~Uses(last.ast, "bvlshr")
       /\ \A M \in Models : Z3_eval(last.ast, M) = Expr_eval(last.e, M)

\* a variable left shift of four bits: by 3 it yields 8 in some model, and by an
\* amount of 4 or more it yields zero for a non-zero operand
C15_Witness ==
  /\ Built({"Shl"}) /\ last.e[4] = hiX
  /\ \E M \in Models : Expr_eval(hiX, M) = 3 /\ Z3_eval(last.ast, M) = 8
  /\ \E M \in Models :
       Expr_eval(hiX, M) >= 4 /\ Expr_eval(loX, M) # 0 /\ Z3_eval(last.ast, M) = 0

\* the last call translated LShr(Shl(x, k), k) for a constant k: the term is
\* bvRightShift(bvLeftShift(x, k), k)
RoundTrip(k) ==
  /\ Built({"LShr"}) /\ last.e[4] = c8(k)
  /\ last.e[3][1] = "Shl" /\ last.e[3][4] = c8(k)

RightAst == (CHOOSE r \in returned : r[1] = last.e[4])[2]

\* the last call translated an Eq of one-bit operands
EqBool == Built({"Eq"}) /\ getWidth(last.e[3]) = 1

\* the term of Eq(constant, other): other, or its negation
ShortCircuit(constant, other) ==
  IF constant[3] = U64(1) THEN other ELSE Z3Handle(notExpr(other))

\* C17: an Eq of one-bit operands of which either one, left or right, is a
\* constant is the other operand's term or its negation; with no constant
\* operand it is iff(left, right); the reported width is 1
C17_EitherConstant ==
  EqBool
    => /\ last.width = 1
       /\ last.ast = (IF last.e[3][1] = "Constant" THEN ShortCircuit(last.e[3], RightAst)
                      ELSE IF last.e[4][1] = "Constant"
                      THEN ShortCircuit(last.e[4], LeftAst)
                      ELSE Z3Handle(iffExpr(LeftAst, RightAst)))

\* C17, amended: only a constant left operand is short-circuited; every other Eq
\* of one-bit operands, a constant right operand included, is iff(left, right)
C17_LeftConstant ==
  EqBool
    => /\ last.width = 1
       /\ last.ast = (IF last.e[3][1] = "Constant" THEN ShortCircuit(last.e[3], RightAst)
                      ELSE Z3Handle(iffExpr(LeftAst, RightAst)))
       /\ last.e[3][1] = "Constant" => last.ast[1] # "iff"

\* an Eq with the constant false on the left was translated to a negation, after
\* an Eq with a constant on the right was translated to an iff
C17_Witness ==
  /\ EqBool /\ last.e[3] = ConstantExpr(1, 0) /\ last.ast[1] = "not"
  /\ \E r \in returned :
       /\ r[1][1] = "Eq" /\ r[1][4][1] = "Constant" /\ r[1][3][1] # "Constant"
       /\ r[2][1] = "iff"

\* the last call translated a node of one of the kinds on 80-bit floats
Built80(kinds) == Built(kinds) /\ getWidth(last.e[3]) = 80

\* wrongHiddenBit in a model: the sentinel of the left or of the right operand
\* of the node of the last call is NaN
Wrong(M) == Z3_select(LeftAst, 1, M) = FpNaN \/ Z3_select(RightAst, 1, M) = FpNaN

\* the comparison of the solver on the numbers of the two operands
NativeCmp == Z3Handle(Z3_mk(NativeOp(last.e[1]), <<>>,
                            <<F80Number(LeftAst), F80Number(RightAst)>>))

NativeArith ==
  Z3Handle(FpArith(last.e[1], IF last.e[1] = "FRem" THEN "RNE" ELSE last.e[5],
                   F80Number(LeftAst), F80Number(RightAst)))

\* C19: the result of FAdd, FSub, FMul, FDiv and FRem at width 80 is an array
\* whose number (index 0) is NaN when the sentinel of an operand is NaN and the
\* native operation on the numbers of the operands otherwise, and whose sentinel
\* (index 1) is fp-zero; an operand made by ExplicitFloat from bits whose integer
\* bit disagrees with the exponent makes the number NaN
C19_ArithNaN ==
  Built80(FpArithKinds)
    => /\ last.width = 80
       /\ last.ast[4][1][4][3][1] = "ite" /\ last.ast[4][1][4][3][4][3] = NativeArith
       /\ \A M \in FpModels :
            /\ Z3_select(last.ast, 1, M) = FpZero
            /\ Z3_select(last.ast, 0, M)
                 = (IF Wrong(M) THEN FpNaN ELSE Z3_eval(NativeArith, M))
            /\ Z3_eval(NativeArith, M) # FpNaN
            /\ (Unnormal(last.e[3], M) \/ Unnormal(last.e[4], M))
                 => Z3_select(last.ast, 0, M) = FpNaN

\* FAdd of an operand made from bits with exponent 0x3fff: its number is NaN in
\* a model where the integer bit is clear, and the native sum in another model
C19_Witness ==
  /\ Built80({"FAdd"}) /\ last.e[3] = e80(16383)
  /\ \E M \in FpModels : Unnormal(last.e[3], M) /\ Z3_select(last.ast, 0, M) = FpNaN
  /\ \E M \in FpModels : ~Wrong(M) /\ Z3_select(last.ast, 0, M) = FpOther

\* the value the conversion of an unnormal operand to width t yields: zero for
\* FToU, the least signed value for FToS to 32 and 64 bits, zero otherwise
UnnormalInt(kind, t) ==
  Z3_mk_sorted("bv", IF kind = "FToS" /\ t = 32 THEN <<0, 32768, 0, 0>>
                     ELSE IF kind = "FToS" /\ t = 64 THEN <<0, 0, 0, 32768>>
                     ELSE <<0, 0, 0, 0>>, <<>>, getBvSort(t))

\* C20: FToU and FToS of an 80-bit operand to width t return
\* ite(wrongHiddenBit, K, conv(number)), where number is index 0 of the operand,
\* wrongHiddenBit says that index 1 is NaN, and conv is the conversion of the
\* solver to an unsigned or signed bitvector of width t
C20_F80ToInt ==
  (last.op = "construct" /\ last.e[1] \in {"FToU", "FToS"} /\ getWidth(last.e[3]) = 80)
    => /\ ~last.abort
       /\ last.width = getWidth(last.e)
       /\ last.ast
            = Z3Handle(iteExpr(isNanExpr(readExpr(LeftAst, bvOne(1))),
                               UnnormalInt(last.e[1], getWidth(last.e)),
                               Z3_mk(IF last.e[1] = "FToU" THEN "fp.to_ubv" ELSE "fp.to_sbv",
                                     <<getWidth(last.e)>>,
                                     <<getRoundingModeAST(last.e[4]),
                                       readExpr(LeftAst, bvZero(1))>>)))

\* C21: ExplicitInt of an 80-bit float is the 80-bit bitvector
\* concat(sign, exp, hidden, mnt), where sign, exp and mnt are bits 78, 77..63
\* and 62..0 of the IEEE encoding of the number at index 0 of the operand and
\* hidden is 0 exactly when exp is zero
C21_ExplicitInt80 ==
  (last.op = "construct" /\ last.e[1] = "ExplicitInt" /\ getWidth(last.e[3]) = 80)
    => /\ ~last.abort
       /\ last.width = 80
       /\ Z3_get_sort(last.ast) = getBvSort(80)
       /\ With(Z3_mk("fp.to_ieee_bv", <<>>, <<readExpr(LeftAst, bvZero(1))>>), LAMBDA ret :
            With(extractExpr(77, 63, ret), LAMBDA exp :
              last.ast
                = Z3Handle(concatExpr4(extractExpr(78, 78, ret), exp,
                                       iteExpr(eqExpr(bvRedorExpr(exp), bvZero(1)),
                                               bvZero(1), bvOne(1)),
                                       extractExpr(62, 0, ret)))))

\* the conversion of the solver that a cast to a float stands for
ConvOp(kind) ==
  CASE kind = "FExt" -> "to_fp_float"
    [] kind = "UToF" -> "to_fp_unsigned"
    [] kind = "SToF" -> "to_fp_signed"

\* C22: FExt, UToF and SToF to width 80 store at index 0 the conversion that the
\* kind uses for the other targets (float to float, unsigned integer to float,
\* signed integer to float), at the sort FP(15, 64), and fp-zero at index 1
C22_CastTo80 ==
  /\ (Built({"FExt", "UToF", "SToF"}) /\ getWidth(last.e) # 80)
       => last.ast[1] = ConvOp(last.e[1])
  /\ (Built({"FExt", "UToF", "SToF"}) /\ getWidth(last.e) = 80)
       => /\ last.ast
               = Z3Handle(F80Array(Z3_mk_sorted(ConvOp(last.e[1]), <<>>,
                                                <<getRoundingModeAST(last.e[4]), LeftAst>>,
                                                F80Sort),
                                   fpZero(F80Sort)))
          /\ \A M \in FpModels : Z3_select(last.ast, 1, M) = FpZero

\* the update nodes of an update list
RECURSIVE ChainOf(_)
ChainOf(un) == IF un = <<>> THEN {} ELSE {un} \cup ChainOf(un[4])

\* the term a construct call has returned for the expression e
AstOf(e) == (CHOOSE r \in returned : r[1] = e)[2]

\* the expressions passed to constructActual during the last call
Translated(l) == {l.actual[i] : i \in 1..Len(l.actual)}

\* C23: over an update chain and any sequence of Reads through its suffixes,
\* the entry cached for an update node is store(entry of the next node,
\* construct(index), construct(value)), with the initial array of the root under
\* the last node, so that the head is the outermost store; every node of a chain
\* that was read is cached; an entry never changes, and no store is built again
\* for a node that has one; the Read has the value of the most recent write
C23_UpdateChain ==
  /\ [](\A un \in DOMAIN update_node_hash :
          update_node_hash[un]
            = Z3Handle(writeExpr(IF un[4] = <<>> THEN array_hash[ArrA]
                                 ELSE update_node_hash[un[4]],
                                 AstOf(un[2]), AstOf(un[3]))))
  /\ []((Built({"Read"}) /\ last.e[3] = ArrA)
          => /\ ChainOf(last.e[4]) \subseteq DOMAIN update_node_hash
             /\ last.ast = Z3Handle(readExpr(IF last.e[4] = <<>> THEN array_hash[ArrA]
                                             ELSE update_node_hash[last.e[4]],
                                             AstOf(last.e[5])))
             /\ \A M \in Models : Z3_eval(last.ast, M) = Expr_eval(last.e, M))
  /\ [][\A un \in DOMAIN update_node_hash :
          /\ un \in DOMAIN update_node_hash'
          /\ update_node_hash'[un] = update_node_hash[un]
          /\ un[3] \notin Translated(last')]_vars

\* a Read through the whole chain after a Read through a suffix of it: the head
\* was added to the cache over the entries of the suffix, and in some model the
\* write at the symbolic index is the one that is read
C23_Witness ==
  /\ Built({"Read"}) /\ last.e[4] = U3 /\ last.e[5] = idx(0)
  /\ U2 \in DOMAIN update_node_hash /\ c8(7) \notin Translated(last)
  /\ c8(9) \in Translated(last)
  /\ \E M \in Models : Z3_eval(last.ast, M) = 9
  /\ \E M \in Models : Z3_eval(last.ast, M) = 7

\* the pattern that the node of the last call, an FConstant or an ExplicitFloat
\* of a constant, stands for
PatternOf(e) == IF e[1] = "FConstant" THEN e[3][1] \o e[3][2] ELSE e[3][3]

\* the number stored at index 0 of an 80-bit float made by two stores
NumberTerm(arr) == arr[4][1][4][3]

\* the bits hi .. lo of the 79-bit encoding (sign 78, exponent 77..63, mantissa
\* 62..0) from which the number n is made: the three numerals of an fp term, or
\* the bitvector of a conversion from bits
PieceBits(n, hi, lo) ==
  IF n[1] = "fp"
  THEN IF lo = 78 THEN WordBits(n[4][1][3], 0, 0)
       ELSE IF lo >= 63 THEN WordBits(n[4][2][3], hi - 63, lo - 63)
       ELSE WordBits(n[4][3][3], hi, lo)
  ELSE Z3_bits(n[4][1], hi, lo, ModelOf(0, 0, 0))

\* the pieces of a number, the mantissa in four parts, and those of a pattern
Pieces(n) ==
  <<PieceBits(n, 78, 78), PieceBits(n, 77, 63), PieceBits(n, 62, 48),
    PieceBits(n, 47, 32), PieceBits(n, 31, 16), PieceBits(n, 15, 0)>>
PatternPieces(b) ==
  <<WordBits(b, 79, 79), WordBits(b, 78, 64), WordBits(b, 62, 48),
    WordBits(b, 47, 32), WordBits(b, 31, 16), WordBits(b, 15, 0)>>

\* the last call translated a pattern as an FConstant or as an ExplicitFloat
BuiltPattern(kinds) ==
  /\ Built(kinds) /\ getWidth(last.e) = 80
  /\ last.e[1] = "ExplicitFloat" => last.e[3][1] = "Constant"

\* C24: for an 80-bit pattern, the sentinel of its ExplicitFloat is fp-zero
\* exactly when the integer bit 63 is set just if the exponent 78..64 is not
\* zero, and NaN otherwise; the FConstant of the pattern has the same sentinel,
\* and both have the sign, the exponent and the 63 mantissa bits of the pattern
\* at index 0
C24_SamePattern ==
  BuiltPattern({"FConstant", "ExplicitFloat"})
    => With(PatternOf(last.e), LAMBDA b :
         /\ Z3_select(last.ast, 1, ModelOf(0, 0, 0))
              = (IF (WordBits(b, 63, 63) = 1) = (WordBits(b, 78, 64) # 0)
                 THEN FpZero ELSE FpNaN)
         /\ NumberTerm(last.ast)[5] = F80Sort
         /\ Pieces(NumberTerm(last.ast)) = PatternPieces(b))

\* the leaf that the nested ite term t selects in the model M
RECURSIVE Chosen(_, _)
Chosen(t, M) ==
  IF t[1] = "ite"
  THEN IF Z3_eval(t[4][1], M) THEN Chosen(t[4][2], M) ELSE Chosen(t[4][3], M)
  ELSE t

\* C25: the number (index 0) of FMin and FMax at width 80 is the number of the
\* right operand if only the sentinel of the left says unnormal, the number of
\* the left operand if only the right or both say unnormal, and the native
\* minimum or maximum of the two numbers if neither does; the sentinel (index 1)
\* of the result is fp-zero in all four cases
C25_MinMax ==
  Built80({"FMin", "FMax"})
    => /\ last.width = 80
       /\ \A M \in FpModels :
            LET wrongLeft == Z3_select(LeftAst, 1, M) = FpNaN
                wrongRight == Z3_select(RightAst, 1, M) = FpNaN
                left == Z3Handle(F80Number(LeftAst))
                right == Z3Handle(F80Number(RightAst))
            IN /\ Z3_select(last.ast, 1, M) = FpZero
               /\ Chosen(NumberTerm(last.ast), M)
                    = (IF wrongLeft /\ ~wrongRight THEN right
                       ELSE IF wrongRight THEN left
                       ELSE Z3Handle(Z3_mk(NativeOp(last.e[1]), <<>>, <<left, right>>)))

\* FMin of a left operand made from bits and a normal right operand: in a model
\* where the integer bit of the left is clear the number is that of the right,
\* in another model it is the native minimum
C25_Witness ==
  /\ Built80({"FMin"}) /\ last.ret # {}
  /\ last.e[3] = e80(16383) /\ last.e[4] = g80
  /\ \E M \in FpModels :
       /\ Z3_select(LeftAst, 1, M) = FpNaN /\ Z3_select(RightAst, 1, M) = FpZero
       /\ Chosen(NumberTerm(last.ast), M) = Z3Handle(F80Number(RightAst))
  /\ \E M \in FpModels :
       /\ Z3_select(LeftAst, 1, M) = FpZero
       /\ Chosen(NumberTerm(last.ast), M)[1] = "fp.min"

\* C26: FAbs at width 80 is the array of its operand with a store at index 0 of
\* fp.abs of the number of the operand; the sentinel (index 1) of the result is
\* the sentinel of the operand
C26_FAbs ==
  Built80({"FAbs"})
    => /\ last.width = 80
       /\ last.ast = Z3Handle(Z3_mk("store", <<>>,
                                    <<LeftAst, bvZero(1),
                                      Z3_mk("fp.abs", <<>>,
                                            <<Z3_mk("select", <<>>, <<LeftAst, bvZero(1)>>)>>)>>))
       /\ \A M \in FpModels :
            /\ Z3_select(last.ast, 1, M) = Z3_select(LeftAst, 1, M)
            /\ Z3_select(last.ast, 0, M)
                 = Z3_eval(Z3Handle(Z3_mk("fp.abs", <<>>, <<F80Number(LeftAst)>>)), M)

\* FAbs of an operand made from bits: the sentinel of the result is NaN in a
\* model where the integer bit of the operand is clear and fp-zero in another
C26_Witness ==
  /\ Built80({"FAbs"}) /\ last.e[3] = e80(16383) /\ last.ret # {}
  /\ \E M \in FpModels : Z3_select(last.ast, 1, M) = FpNaN
  /\ \E M \in FpModels : Z3_select(last.ast, 1, M) = FpZero

\* the kinds that make a float, and the sort of an 80-bit float
F80Kinds ==
  {"FConstant", "ExplicitFloat", "FExt", "UToF", "SToF", "FSqrt", "FNearbyInt", "FAdd",
   "FSub", "FMul", "FDiv", "FRem", "FMin", "FMax", "FAbs", "Select", "FSelect"}
F80ArraySort == getArraySort(getBvSort(1), F80Sort)

\* the cell j of the array term arr is defined by a store on every path
RECURSIVE Defined(_, _), Grounded(_)
Defined(arr, j) ==
  CASE arr[1] = "store" ->
         /\ arr[4][2][1] = "bv"
         /\ WordValue(arr[4][2][3]) = j \/ Defined(arr[4][1], j)
    [] arr[1] = "ite" -> Defined(arr[4][2], j) /\ Defined(arr[4][3], j)
    [] OTHER -> FALSE

\* every select from an 80-bit float inside the term t reads a defined cell
Grounded(t) ==
  /\ (t[1] = "select" /\ t[4][1][5] = F80ArraySort)
       => t[4][2][1] = "bv" /\ Defined(t[4][1], WordValue(t[4][2][3]))
  /\ \A i \in 1..Len(t[4]) : Grounded(t[4][i])

\* C30: every 80-bit float that the translator returns has index 0 and index 1
\* defined by a store, as has every 80-bit float that the term reads from: no
\* value read at index 0 or 1 is a cell of the free array "[F80, unnormal]"
C30_BothIndexes ==
  /\ (Built(F80Kinds) /\ last.width = 80 /\ last.ast[5] = F80ArraySort)
       => Defined(last.ast, 0) /\ Defined(last.ast, 1) /\ Grounded(last.ast)
  /\ (Built(F80Kinds \ {"Select"}) /\ last.width = 80) => last.ast[5] = F80ArraySort

\* FAbs of an FSelect between an FMin and an FSqrt was translated: both indexes
\* are defined on both branches
C30_Witness ==
  /\ Built({"FAbs"}) /\ last.width = 80 /\ last.e[3][1] = "FSelect"
  /\ last.ast[4][1][1] = "ite"
  /\ Defined(last.ast, 0) /\ Defined(last.ast, 1) /\ Grounded(last.ast)

\* C27: AShr by a non-constant amount s of the width w of x is, in every model,
\* x shifted right by s with the sign bit filled in from the top when s is in
\* 0 .. w - 1, the start of the chain s = w - 1 included, and zero when s >= w,
\* whatever the sign of x
C27_VariableAShr ==
  (Built({"AShr"}) /\ last.e[4][1] # "Constant")
    => /\ last.ast[1] = "ite" /\ last.ast[4][3] = Z3Handle(bvZero(last.width))
       /\ ~Uses(last.ast, "bvashr")
       /\ \A M \in Models : Z3_eval(last.ast, M) = Expr_eval(last.e, M)

\* an arithmetic shift of four bits: a negative operand shifted by 3, the start
\* of the chain, yields all ones, and shifted by 4 or more it yields zero
C27_Witness ==
  /\ Built({"AShr"}) /\ last.e[3] = loX /\ last.e[4] = hiX
  /\ \E M \in Models :
       Expr_eval(hiX, M) = 3 /\ Expr_eval(loX, M) >= 8 /\ Z3_eval(last.ast, M) = 15
  /\ \E M \in Models :
       Expr_eval(hiX, M) >= 4 /\ Expr_eval(loX, M) >= 8 /\ Z3_eval(last.ast, M) = 0
  /\ \E M \in Models :
       Expr_eval(hiX, M) = 1 /\ Expr_eval(loX, M) = 10 /\ Z3_eval(last.ast, M) = 13

\* the widths of the chunks of a nest of concats, the lowest chunk first, and
\* whether every chunk is a numeral
RECURSIVE ChunkWidths(_), ChunksAreNumerals(_)
ChunkWidths(t) ==
  IF t[1] = "concat" THEN Append(ChunkWidths(t[4][2]), WidthOf(t[4][1])) ELSE <<WidthOf(t)>>
ChunksAreNumerals(t) ==
  IF t[1] = "concat" THEN t[4][1][1] = "bv" /\ ChunksAreNumerals(t[4][2]) ELSE t[1] = "bv"

\* the bits of the term t of width w are those of the word v, 16 at a time
SameBits(t, v, w) ==
  \A k \in 0..((w - 1) \div 16) :
    With(IF 16 * k + 15 < w THEN 16 * k + 15 ELSE w - 1, LAMBDA hi :
      Z3_bits(t, hi, 16 * k, ModelOf(0, 0, 0)) = WordBits(v, hi, 16 * k))

\* C28: an integer constant of width w > 64 and value v becomes a concatenation
\* of numerals of total width w and value v: the low 64 bits, then each next
\* chunk of 64 bits on the high side, the last chunk of w mod 64 bits (64 when
\* 64 divides w); for 1 < w <= 64 it is one numeral of width w and value v, and
\* for w = 1 it is true or false
C28_ConstantChunks ==
  Built({"Constant"})
    => With(last.e[2], LAMBDA w :
         /\ last.width = w
         /\ w = 1 => last.ast = Z3Handle(IF Bit(last.e[3], 0) = 1 THEN getTrue ELSE getFalse)
         /\ w > 1 => /\ last.ast[5] = getBvSort(w)
                     /\ ChunksAreNumerals(last.ast)
                     /\ SameBits(last.ast, last.e[3], w)
                     /\ ChunkWidths(last.ast)
                          = [i \in 1..((w + 63) \div 64) |->
                               IF 64 * i <= w THEN 64 ELSE w % 64])

\* a constant of 130 bits was translated: chunks of 64, 64 and 2 bits
C28_Witness ==
  /\ Built({"Constant"}) /\ last.e[2] = 130
  /\ ChunkWidths(last.ast) = <<64, 64, 2>>
  /\ Z3_bits(last.ast, 129, 128, ModelOf(0, 0, 0)) = 3
  /\ Z3_bits(last.ast, 79, 64, ModelOf(0, 0, 0)) = 5

\* C29: with hash-consing on, no key of the construct cache is a constant node;
\* a construct call leaves every node that is not a constant and for which
\* construct has returned during the call as a key, with the term and the width
\* returned; it changes and removes no entry that was there; a node found in the
\* cache is not passed to constructActual; and a call on a cached node returns
\* the stored term and width with no constructActual and with the construct
\* cache and both array maps as they were
C29_ConstructCache ==
  /\ [](UseConstructHashZ3 => \A k \in DOMAIN constructed : ~isa_ConstantExpr(k))
  /\ [][(UseConstructHashZ3 /\ ncalls' # ncalls /\ last'.op = "construct")
          => /\ \A r \in last'.ret :
                  ~isa_ConstantExpr(r[1])
                    => r[1] \in DOMAIN constructed' /\ constructed'[r[1]] = <<r[2], r[3]>>
             /\ \A k \in DOMAIN constructed :
                  k \in DOMAIN constructed' /\ constructed'[k] = constructed[k]
             /\ \A h \in last'.hits : h \in DOMAIN constructed => h \notin Translated(last')
             /\ last'.e \in DOMAIN constructed
                  => /\ ~last'.abort /\ last'.actual = <<>> /\ last'.hits = {last'.e}
                     /\ <<last'.ast, last'.width>> = constructed[last'.e]
                     /\ constructed' = constructed
                     /\ array_hash' = array_hash
                     /\ update_node_hash' = update_node_hash]_vars

\* a call on a node that is in the cache has returned: nothing was translated,
\* and the cache is the one before the call; it holds no constant, though the
\* node has constants below it
C29_Witness ==
  /\ UseConstructHashZ3 /\ last.op = "construct" /\ ~last.abort /\ last.again
  /\ last.e \in DOMAIN last.before /\ last.actual = <<>> /\ last.hits = {last.e}
  /\ constructed = last.before
  /\ <<last.ast, last.width>> = constructed[last.e]
  /\ \E n \in Nodes(last.e) : isa_ConstantExpr(n)
  /\ array_hash # EmptyMap


====
